---------------------------- MODULE Spec2Model ----------------------------
(***************************************************************************)
(* A model of validate-codeowners (gitlab-codeowners): the CODEOWNERS line *)
(* parser and file analysis (analysis/analysis.go), the translation of     *)
(* file patterns to globs and the staged check of owners against the       *)
(* project's direct members (main.go), the REST and GraphQL membership     *)
(* sources with their paged queries (rest, graphql/graphql.go), the syntax *)
(* check and the order of main's steps.                                    *)
(*                                                                         *)
(* A Go string is modelled as a sequence of one-character strings, so that *)
(* indexing, slicing and prefix tests are the ones of the code.  Indices   *)
(* of the code are 0-based: line[i] of the code is line[i + 1] here.       *)
(***************************************************************************)
EXTENDS Integers, Sequences, FiniteSets, TLC

VARIABLES
    pc,              \* position of the modelled run
    co,              \* analysis.Co, the CodeownersFileAnatomy struct
    lineIdx,         \* number of lines of co.CodeownersFileLines processed by Analyze's loop
    parsed,          \* Analyze's loop locals: sectionHeading, filePattern, ownerPatterns
    owners,          \* Analyze's loop locals: usersOrGroups, emails, ignored
    maps,            \* Analyze's five set maps
    fp,              \* checkFilePatterns: its input, loop position, locals and results
    chk,             \* checkOwners: its inputs, remaining lists, locals and error
    calls,           \* log of the membership-source queries made by checkOwners
    flt,             \* filterSlice: its inputs, loop position and working slice
    hp,              \* a helper function applied on its own: its name, input and result
    gq,              \* the GitLab servers: project path, position and results of the running query
    mn,              \* main: the result of the syntax check, the calls made and the failed checks
    loc              \* package init: the three supported locations, loop position and error

vars == <<pc, co, lineIdx, parsed, owners, maps, fp, chk, calls, flt, hp, gq, mn, loc>>

-----------------------------------------------------------------------------
(* Bounds of the model                                                     *)

MaxLineLen == 4      \* longest line enumerated character by character
MaxFileLines == 2    \* most lines in an enumerated multi-line file
MaxPatternLen == 3   \* longest file pattern enumerated character by character
MaxPatterns == 2     \* most file patterns handed to checkFilePatterns
MaxCandidates == 2   \* longest candidate list handed to checkOwners
MaxFound == 2        \* longest list a membership source returns

-----------------------------------------------------------------------------
(* Strings                                                                 *)

\* a character is a string of one character; the characters that a string of
\* TLA+ cannot hold are written by their code point
VerticalTab == "U+000B"

\* the characters with Unicode's White Space property, which are those that
\* unicode.IsSpace accepts
WhiteSpace ==
    {" ", "\t", "\n", "\r", "\f", VerticalTab, "U+0085", "U+00A0", "U+1680",
     "U+2000", "U+2001", "U+2002", "U+2003", "U+2004", "U+2005", "U+2006", "U+2007",
     "U+2008", "U+2009", "U+200A", "U+2028", "U+2029", "U+202F", "U+205F", "U+3000"}

\* unicode.IsSpace
IsSpace(c) == c \in WhiteSpace

Min(S) == CHOOSE x \in S : \A y \in S : x <= y
Max(S) == CHOOSE x \in S : \A y \in S : x >= y

\* strings.TrimSpace
TrimSpace(s) ==
    LET keep == {i \in 1..Len(s) : ~IsSpace(s[i])}
    IN  IF keep = {} THEN <<>> ELSE SubSeq(s, Min(keep), Max(keep))

\* strings.HasPrefix / strings.HasSuffix
HasPrefix(s, p) == Len(s) >= Len(p) /\ SubSeq(s, 1, Len(p)) = p
HasSuffix(s, p) == Len(s) >= Len(p) /\ SubSeq(s, Len(s) - Len(p) + 1, Len(s)) = p

\* strings.Contains, for a one-character substring
Contains(s, c) == \E i \in 1..Len(s) : s[i] = c

\* strings.TrimPrefix
TrimPrefix(s, p) == IF HasPrefix(s, p) THEN SubSeq(s, Len(p) + 1, Len(s)) ELSE s

\* strings.Fields: the maximal runs of non-space characters, scanned left to right;
\* cur is the field being collected
RECURSIVE FieldsFrom(_, _, _)
FieldsFrom(s, i, cur) ==
    IF i > Len(s) THEN (IF cur = <<>> THEN <<>> ELSE <<cur>>)
    ELSE IF IsSpace(s[i])
         THEN (IF cur = <<>> THEN <<>> ELSE <<cur>>) \o FieldsFrom(s, i + 1, <<>>)
         ELSE FieldsFrom(s, i + 1, Append(cur, s[i]))

Fields(s) == FieldsFrom(s, 1, <<>>)

\* strings.Split(s, "\n")
RECURSIVE SplitLinesFrom(_, _, _)
SplitLinesFrom(s, i, cur) ==
    IF i > Len(s) THEN <<cur>>
    ELSE IF s[i] = "\n"
         THEN <<cur>> \o SplitLinesFrom(s, i + 1, <<>>)
         ELSE SplitLinesFrom(s, i + 1, Append(cur, s[i]))

\* strings.ReplaceAll(s, "\r\n", "\n")
RECURSIVE ReplaceCrLf(_)
ReplaceCrLf(s) ==
    IF s = <<>> THEN <<>>
    ELSE IF Len(s) >= 2 /\ s[1] = "\r" /\ s[2] = "\n"
         THEN <<"\n">> \o ReplaceCrLf(SubSeq(s, 3, Len(s)))
         ELSE <<s[1]>> \o ReplaceCrLf(Tail(s))

\* all sequences over S of length at most n
SeqsUpTo(S, n) == UNION {[1..k -> S] : k \in 0..n}

\* the elements of a sequence
Range(s) == {s[i] : i \in 1..Len(s)}

\* the orders in which a range over a Go map can visit the keys of a set
Orders(S) == {s \in [1..Cardinality(S) -> S] : Range(s) = S}

-----------------------------------------------------------------------------
(* analysis.splitCodeownersLine                                            *)

\* line[i-1] == '\\' for i > 0: the character before index i is a backslash
prevCharIsEscapeNever(line, i) == FALSE
prevCharIsEscape(line, i) == i > 0 /\ line[i] = "\\"

\* c == ' ' || c == '\t'
isSplitChar(c) == c \in {" ", "\t"}

\* (i == 0 && c == '[') || (i == 1 && firstCharIsHat && c == '[')
opensSectionHeadingWithoutHat(i, c, firstCharIsHat) == (i = 0 \/ i = 1) /\ c = "["
opensSectionHeading(i, c, firstCharIsHat) ==
    (i = 0 /\ c = "[") \/ (i = 1 /\ firstCharIsHat /\ c = "[")

\* the loop over the characters of the trimmed line, from index i on, with the
\* flags as they stand before index i; yields splitPosition (0 when the loop
\* ends without break) and sectionHeadingStarted
RECURSIVE findSplit(_, _, _, _, _)
findSplit(line, i, firstCharIsHat, sectionHeadingStarted, sectionHeadingEnded) ==
    IF i >= Len(line)
    THEN [splitPosition |-> 0, sectionHeadingStarted |-> sectionHeadingStarted]
    ELSE LET c == line[i + 1]
             esc == prevCharIsEscape(line, i)
             hat == firstCharIsHat \/ (i = 0 /\ c = "^")
             started == sectionHeadingStarted \/ opensSectionHeading(i, c, hat)
             ended == sectionHeadingEnded \/ (started /\ ~esc /\ c = "]")
         IN  IF ~(started /\ ~ended) /\ ~esc /\ isSplitChar(c)
             THEN [splitPosition |-> i, sectionHeadingStarted |-> started]
             ELSE findSplit(line, i + 1, hat, started, ended)

\* line[:splitPosition]
leftSide(line, splitPosition) == SubSeq(line, 1, splitPosition)

\* line[splitPosition+1:]
rightSideKeepDelimiter(line, splitPosition) == SubSeq(line, splitPosition + 1, Len(line))
rightSideTrimmed(line, splitPosition) == TrimSpace(SubSeq(line, splitPosition + 2, Len(line)))
rightSide(line, splitPosition) == SubSeq(line, splitPosition + 2, Len(line))

\* the comment and blank line test on the trimmed line
isSkippedLineBlankOnly(line) == line = <<>>
isSkippedLine(line) == line = <<>> \/ HasPrefix(line, <<"#">>)

splitCodeownersLine(rawLine) ==
    LET line == TrimSpace(rawLine)
        none == [sectionHeading |-> <<>>, filePattern |-> <<>>, ownerPatterns |-> <<>>]
    IN  IF isSkippedLine(line) THEN none
        ELSE LET r == findSplit(line, 0, FALSE, FALSE, FALSE)
                 sp == r.splitPosition
                 left == IF sp = 0 THEN line ELSE leftSide(line, sp)
                 right == IF sp = 0 THEN <<>> ELSE rightSide(line, sp)
             IN  IF r.sectionHeadingStarted
                 THEN [sectionHeading |-> left, filePattern |-> <<>>, ownerPatterns |-> right]
                 ELSE [sectionHeading |-> <<>>, filePattern |-> left, ownerPatterns |-> right]

-----------------------------------------------------------------------------
(* analysis.splitOwnerPatterns                                             *)

\* the class of one field: "ug" (starts with @), "email" (contains @), "ignored"
ownerClassByContains(o) == IF Contains(o, "@") THEN "ug" ELSE "ignored"
ownerClass(o) ==
    IF HasPrefix(o, <<"@">>) THEN "ug"
    ELSE IF Contains(o, "@") THEN "email"
    ELSE "ignored"

splitOwnerPatterns(ownerPatterns) ==
    LET fields == Fields(ownerPatterns)
        ofClass(k) == SelectSeq(fields, LAMBDA o : ownerClass(o) = k)
    IN  [usersOrGroups |-> ofClass("ug"), emails |-> ofClass("email"),
         ignored |-> ofClass("ignored")]

\* strings.TrimPrefix(ug, "@"), applied by Analyze before it stores a user or group
storedNameVerbatim(ug) == ug
storedName(ug) == TrimPrefix(ug, <<"@">>)

-----------------------------------------------------------------------------
(* Inputs of the analysis                                                  *)

\* the characters of the lines enumerated exhaustively
LineAlphabet == {"a", " ", "\t", "\\", "[", "]", "^", "#", "@", "\n", VerticalTab}

\* [Section]  @owner1
SectionLine ==
    <<"[", "S", "e", "c", "t", "i", "o", "n", "]", " ", " ", "@", "o", "w", "n", "e", "r", "1">>
\* ^[Optional]  @owner
OptionalLine ==
    <<"^", "[", "O", "p", "t", "i", "o", "n", "a", "l", "]", " ", " ", "@", "o", "w", "n", "e", "r">>
\* docs/\ file.md @user
EscapedSpaceLine ==
    <<"d", "o", "c", "s", "/", "\\", " ", "f", "i", "l", "e", ".", "m", "d", " ", "@", "u", "s", "e", "r">>
\* # a comment
CommentLine == <<"#", " ", "a", " ", "c", "o", "m", "m", "e", "n", "t">>
\* a\\ b
DoubleBackslashLine == <<"a", "\\", "\\", " ", "b">>
\* [a\] b] @x
EscapedBracketLine == <<"[", "a", "\\", "]", " ", "b", "]", " ", "@", "x">>
\* * @grp1 user@example.com plainword
ClassifiedLine ==
    <<"*", " ", "@", "g", "r", "p", "1", " ", "u", "s", "e", "r", "@", "e", "x", "a", "m", "p", "l", "e",
      ".", "c", "o", "m", " ", "p", "l", "a", "i", "n", "w", "o", "r", "d">>
\* [Frontend] @team-fe user@corp.com
FrontendLine ==
    <<"[", "F", "r", "o", "n", "t", "e", "n", "d", "]", " ", "@", "t", "e", "a", "m", "-", "f", "e", " ",
      "u", "s", "e", "r", "@", "c", "o", "r", "p", ".", "c", "o", "m">>
\* src/app/ @alice
AppLine == <<"s", "r", "c", "/", "a", "p", "p", "/", " ", "@", "a", "l", "i", "c", "e">>
\* README.md @ @alice      (an owner that is just "@")
BareAtLine == <<"R", "E", "A", "D", "M", "E", ".", "m", "d", " ", "@", " ", "@", "a", "l", "i", "c", "e">>
\* docs a<VT>@b<NBSP>      (owners parted by a vertical tab, a no-break space at the end)
VerticalTabLine == <<"d", "o", "c", "s", " ", "a", VerticalTab, "@", "b", "U+00A0">>

SampleLines ==
    {SectionLine, OptionalLine, EscapedSpaceLine, CommentLine, DoubleBackslashLine,
     EscapedBracketLine, ClassifiedLine, FrontendLine, AppLine, BareAtLine, VerticalTabLine,
     <<>>}

\* strings.Join(lines, sep)
RECURSIVE Join(_, _)
Join(lines, sep) ==
    IF lines = <<>> THEN <<>>
    ELSE IF Len(lines) = 1 THEN lines[1]
    ELSE lines[1] \o sep \o Join(Tail(lines), sep)

\* the contents of the CODEOWNERS file that os.ReadFile can return: every text of
\* at most MaxLineLen characters, and the files of one to MaxFileLines sample
\* lines with Linux or Windows line endings
FileContents ==
    SeqsUpTo(LineAlphabet, MaxLineLen)
        \cup {Join(ls, sep) : ls \in (SeqsUpTo(SampleLines, MaxFileLines) \ {<<>>}),
                              sep \in {<<"\n">>, <<"\r", "\n">>}}

-----------------------------------------------------------------------------
(* analysis.CodeownersFileAnatomy.Analyze                                  *)

NoParsed == [sectionHeading |-> <<>>, filePattern |-> <<>>, ownerPatterns |-> <<>>]
NoOwners == [usersOrGroups |-> <<>>, emails |-> <<>>, ignored |-> <<>>]
EmptyMaps ==
    [sectionHeadingsMap |-> {}, filePatternsMap |-> {}, userAndGroupPatternsMap |-> {},
     emailPatternsMap |-> {}, ignoredPatternsMap |-> {}]

\* GitLab's three locations of the CODEOWNERS file, in order of precedence
supportedLocations == <<"CODEOWNERS", "docs/CODEOWNERS", ".gitlab/CODEOWNERS">>

\* the zero value of the struct, which analysis.Co has before the package's init()
ZeroCo ==
    [CodeownersFilePath |-> "", Analyzed |-> FALSE, CodeownersFileLines |-> <<>>,
     SectionHeadings |-> <<>>, FilePatterns |-> <<>>, UserAndGroupPatterns |-> <<>>,
     EmailPatterns |-> <<>>, IgnoredPatterns |-> <<>>]

\* analysis.Co after init() has found the file at location
NewCo(location) == [ZeroCo EXCEPT !.CodeownersFilePath = location]

\* analysis.Co when main starts: init() has set the path to one of the three
\* locations, or has panicked
NewCos == {NewCo(supportedLocations[i]) : i \in 1..Len(supportedLocations)}

\* analysis.Co in a specification of functions that do not use it
IdleCo == ZeroCo

\* state of the parts of the program that a specification does not run
IdleFp == [filePatterns |-> <<>>, idx |-> 0, globExpression |-> <<>>, badPatterns |-> <<>>,
           globCalls |-> <<>>, err |-> FALSE, fs |-> <<>>]
IdleChk == [ugList |-> <<>>, emailList |-> <<>>, remainingUsersGroups |-> <<>>,
            remainingEmails |-> <<>>, groupsFound |-> <<>>, usernamesFound |-> <<>>,
            emailsFound |-> <<>>, err |-> FALSE, stages |-> <<>>,
            ugBacking |-> "", emailBacking |-> ""]
IdleFlt == [input |-> <<>>, filterAgainst |-> <<>>, idx |-> 0, original |-> <<>>]
IdleHp == [fn |-> "", input |-> <<>>, output |-> <<>>]
\* NoCursor is the query without an "after" argument
NoCursor == ""
IdleGq ==
    [projectFullPath |-> <<>>, userSource |-> "", after |-> NoCursor, requests |-> <<>>,
     pages |-> <<>>, usernamesFound |-> <<>>, emailsFound |-> <<>>, err |-> FALSE,
     queryFailed |-> FALSE]
IdleMn == [syntaxErr |-> FALSE, trace |-> <<>>, failedChecks |-> <<>>]
IdleLoc == [stat |-> <<>>, idx |-> 0, err |-> FALSE]

\* readCodeownersFile: split the content on Windows and Linux line endings
readCodeownersFile(content) == SplitLinesFrom(ReplaceCrLf(content), 1, <<>>)

\* setMapToSlice: the slices it can return for the set m; the range over the map
\* visits the keys in an unspecified order
setMapToSliceKeepEmpty(m) == Orders(m)
setMapToSlice(m) == Orders(m \ {<<>>})

\* setMapToSlice, line 103: delete(m, "") acts on the caller's map
deleteEmptyKey(m) == m \ {<<>>}

InitAnalyze ==
    /\ pc = "Analyze"
    /\ co \in NewCos
    /\ lineIdx = 0
    /\ parsed = NoParsed
    /\ owners = NoOwners
    /\ maps = EmptyMaps
    /\ fp = IdleFp
    /\ chk = IdleChk
    /\ calls = <<>>
    /\ flt = IdleFlt
    /\ hp = IdleHp
    /\ gq = IdleGq
    /\ mn = IdleMn
    /\ loc = IdleLoc

\* Analyze, lines 59-61: the file is read when no lines are loaded
ReadCodeownersFileFrom(contents) ==
    /\ Len(co.CodeownersFileLines) = 0
    /\ \E content \in contents :
          co' = [co EXCEPT !.CodeownersFileLines = readCodeownersFile(content)]
    /\ pc' = "loop"
    /\ UNCHANGED <<lineIdx, parsed, owners, maps, fp, chk, calls, flt, hp, gq, mn, loc>>

ReadCodeownersFile ==
    /\ pc = "Analyze"
    /\ ReadCodeownersFileFrom(FileContents)

\* readCodeownersFile, lines 114-117: os.ReadFile fails and the function panics
ReadCodeownersFileFails ==
    /\ pc = "Analyze"
    /\ Len(co.CodeownersFileLines) = 0
    /\ pc' = "panic"
    /\ UNCHANGED <<co, lineIdx, parsed, owners, maps, fp, chk, calls, flt, hp, gq, mn, loc>>

\* one iteration of Analyze's loop over the lines, lines 70-90
AnalyzeLine ==
    /\ pc = "loop"
    /\ lineIdx < Len(co.CodeownersFileLines)
    /\ LET l == co.CodeownersFileLines[lineIdx + 1]
           p == splitCodeownersLine(l)
           o == splitOwnerPatterns(p.ownerPatterns)
       IN  /\ parsed' = p
           /\ owners' = o
           /\ maps' =
                [sectionHeadingsMap |-> maps.sectionHeadingsMap \cup {p.sectionHeading},
                 filePatternsMap |-> maps.filePatternsMap \cup {p.filePattern},
                 userAndGroupPatternsMap |->
                     maps.userAndGroupPatternsMap \cup {storedName(ug) : ug \in Range(o.usersOrGroups)},
                 emailPatternsMap |-> maps.emailPatternsMap \cup Range(o.emails),
                 ignoredPatternsMap |-> maps.ignoredPatternsMap \cup Range(o.ignored)]
    /\ lineIdx' = lineIdx + 1
    /\ UNCHANGED <<pc, co, fp, chk, calls, flt, hp, gq, mn, loc>>

\* the end of Analyze, lines 92-97: the sets are saved as slices
AnalyzeFinish ==
    /\ pc = "loop"
    /\ lineIdx = Len(co.CodeownersFileLines)
    /\ \E sh \in setMapToSlice(maps.sectionHeadingsMap),
          fps \in setMapToSlice(maps.filePatternsMap),
          ug \in setMapToSlice(maps.userAndGroupPatternsMap),
          em \in setMapToSlice(maps.emailPatternsMap),
          ig \in setMapToSlice(maps.ignoredPatternsMap) :
          co' = [co EXCEPT !.Analyzed = TRUE, !.SectionHeadings = sh, !.FilePatterns = fps,
                           !.UserAndGroupPatterns = ug, !.EmailPatterns = em,
                           !.IgnoredPatterns = ig]
    /\ maps' = [sectionHeadingsMap |-> deleteEmptyKey(maps.sectionHeadingsMap),
                 filePatternsMap |-> deleteEmptyKey(maps.filePatternsMap),
                 userAndGroupPatternsMap |-> deleteEmptyKey(maps.userAndGroupPatternsMap),
                 emailPatternsMap |-> deleteEmptyKey(maps.emailPatternsMap),
                 ignoredPatternsMap |-> deleteEmptyKey(maps.ignoredPatternsMap)]
    /\ pc' = "analyzed"
    /\ UNCHANGED <<lineIdx, parsed, owners, fp, chk, calls, flt, hp, gq, mn, loc>>

NextAnalyze == ReadCodeownersFile \/ ReadCodeownersFileFails \/ AnalyzeLine \/ AnalyzeFinish

SpecAnalyze == InitAnalyze /\ [][NextAnalyze]_vars

-----------------------------------------------------------------------------
(* main.translateCoToGlob and main.checkFilePatterns                       *)

\* the characters of the file patterns enumerated exhaustively
PatternAlphabet == {"/", "*", "a"}

Star == <<"*">>
\* src/    /README.md    *.go
SrcDirPattern == <<"s", "r", "c", "/">>
ReadmePattern == <<"/", "R", "E", "A", "D", "M", "E", ".", "m", "d">>
GoFilesPattern == <<"*", ".", "g", "o">>

FilePatternInputs ==
    SeqsUpTo(PatternAlphabet, MaxPatternLen) \cup {SrcDirPattern, ReadmePattern, GoFilesPattern}

\* the lists handed to checkFilePatterns: every enumerated pattern on its own,
\* and the lists of the sample patterns and "*"
FilePatternLists ==
    {<<p>> : p \in FilePatternInputs}
        \cup SeqsUpTo({Star, SrcDirPattern, ReadmePattern, GoFilesPattern}, MaxPatterns)

translateCoToGlobWithoutDirSuffix(pattern) ==
    IF HasPrefix(pattern, <<"/">>) THEN <<".">> \o pattern
    ELSE <<".", "/", "*", "*", "/">> \o pattern
translateCoToGlob(pattern) ==
    LET translatedPattern ==
            IF HasPrefix(pattern, <<"/">>)
            THEN <<".">> \o pattern
            ELSE <<".", "/", "*", "*", "/">> \o pattern
    IN  IF HasSuffix(pattern, <<"/">>)
        THEN translatedPattern \o <<"*", "*", "/", "*">>
        ELSE translatedPattern

\* pattern == "*"
skipsPatternNever(pattern) == FALSE
skipsPatternWithStar(pattern) == Contains(pattern, "*")
skipsPattern(pattern) == pattern = Star

\* The working directory as filepath.Glob sees it: what the glob of an
\* expression gives (matches, no match, or an error), for the expressions of
\* the patterns in a list and of "*"
GlobOutcomes == {"matches", "none", "error"}
FileSystemsFor(patterns) ==
    [{translateCoToGlob(p) : p \in Range(patterns) \cup {Star}} -> GlobOutcomes]

\* filepath.Glob(globExpression) in the working directory fs
Glob(fs, globExpression) == fs[globExpression]

InitFilePatterns ==
    /\ pc = "checkFilePatterns"
    /\ co = IdleCo
    /\ lineIdx = 0
    /\ parsed = NoParsed
    /\ owners = NoOwners
    /\ maps = EmptyMaps
    /\ \E ps \in FilePatternLists :
          fp \in {[IdleFp EXCEPT !.filePatterns = ps, !.fs = fs] : fs \in FileSystemsFor(ps)}
    /\ chk = IdleChk
    /\ calls = <<>>
    /\ flt = IdleFlt
    /\ hp = IdleHp
    /\ gq = IdleGq
    /\ mn = IdleMn
    /\ loc = IdleLoc

\* checkFilePatterns, lines 190-192: the pattern "*" is skipped
CheckFilePatternSkipStar ==
    /\ pc = "checkFilePatterns"
    /\ fp.idx < Len(fp.filePatterns)
    /\ skipsPattern(fp.filePatterns[fp.idx + 1])
    /\ fp' = [fp EXCEPT !.idx = fp.idx + 1]
    /\ UNCHANGED <<pc, co, lineIdx, parsed, owners, maps, chk, calls, flt, hp, gq, mn, loc>>

\* checkFilePatterns, lines 193-203: the pattern is translated and globbed; the
\* glob finds matches, finds none, or fails
CheckFilePatternGlob ==
    /\ pc = "checkFilePatterns"
    /\ fp.idx < Len(fp.filePatterns)
    /\ ~skipsPattern(fp.filePatterns[fp.idx + 1])
    /\ LET pattern == fp.filePatterns[fp.idx + 1]
           globExpression == translateCoToGlob(pattern)
           outcome == Glob(fp.fs, globExpression)
       IN     /\ fp' = [fp EXCEPT !.idx = fp.idx + 1,
                                  !.globExpression = globExpression,
                                  !.globCalls = Append(fp.globCalls, globExpression),
                                  !.badPatterns = IF outcome = "none"
                                                  THEN Append(fp.badPatterns, pattern)
                                                  ELSE fp.badPatterns,
                                  !.err = (outcome = "error")]
              /\ pc' = IF outcome = "error" THEN "checkedFilePatterns" ELSE pc
    /\ UNCHANGED <<co, lineIdx, parsed, owners, maps, chk, calls, flt, hp, gq, mn, loc>>

\* checkFilePatterns, line 205: the loop has ended
CheckFilePatternsReturn ==
    /\ pc = "checkFilePatterns"
    /\ fp.idx = Len(fp.filePatterns)
    /\ pc' = "checkedFilePatterns"
    /\ UNCHANGED <<co, lineIdx, parsed, owners, maps, fp, chk, calls, flt, hp, gq, mn, loc>>

NextFilePatterns == CheckFilePatternSkipStar \/ CheckFilePatternGlob \/ CheckFilePatternsReturn

SpecFilePatterns == InitFilePatterns /\ [][NextFilePatterns]_vars

-----------------------------------------------------------------------------
(* main.filterSlice, main.remove and main.checkOwners                      *)

\* slices.IndexFunc(original, func(e) e == filterElement): the 0-based index of
\* the first occurrence, or -1
IndexFunc(original, filterElement) ==
    LET at == {i \in 1..Len(original) : original[i] = filterElement}
    IN  IF at = {} THEN -1 ELSE Min(at) - 1

\* remove: the last element overwrites the element at index i, and the slice is
\* cut by one
removeLastInstead(s, i) == SubSeq(s, 1, Len(s) - 1)
removeWithoutCut(s, i) == [s EXCEPT ![i + 1] = s[Len(s)]]
remove(s, i) == [j \in 1..(Len(s) - 1) |-> IF j = i + 1 THEN s[Len(s)] ELSE s[j]]

\* the bounds checks of the Go runtime: s[i] and s[lo:hi] on a string or slice
\* of length n
indexInRange(i, n) == 0 <= i /\ i < n
sliceInRange(lo, hi, n) == 0 <= lo /\ lo <= hi /\ hi <= n

\* remove indexes s[i] and s[len(s)-1]
removePanics(s, i) == ~indexInRange(i, Len(s)) \/ ~indexInRange(Len(s) - 1, Len(s))

\* originalIndex > -1
foundInOriginalAlways(originalIndex) == TRUE
foundInOriginal(originalIndex) == originalIndex > -1

\* one iteration of filterSlice's loop, for the element filterElement
filterStepRemoveAll(original, filterElement) ==
    SelectSeq(original, LAMBDA e : e # filterElement)
filterStepCutOnMiss(original, filterElement) ==
    LET originalIndex == IndexFunc(original, filterElement)
    IN  IF originalIndex > -1 THEN remove(original, originalIndex)
        ELSE SubSeq(original, 1, Len(original) - 1)
filterStep(original, filterElement) ==
    LET originalIndex == IndexFunc(original, filterElement)
    IN  IF foundInOriginal(originalIndex) THEN remove(original, originalIndex)
                                          ELSE original

\* the iteration indexes out of range
filterStepPanics(original, filterElement) ==
    LET originalIndex == IndexFunc(original, filterElement)
    IN  foundInOriginal(originalIndex) /\ removePanics(original, originalIndex)

RECURSIVE filterSlice(_, _)
filterSliceFirstOnly(original, filterAgainst) ==
    IF filterAgainst = <<>> THEN original ELSE filterStep(original, filterAgainst[1])
filterSlice(original, filterAgainst) ==
    IF filterAgainst = <<>> THEN original
    ELSE filterSlice(filterStep(original, filterAgainst[1]), Tail(filterAgainst))

\* the user, group and email names of the membership model
TeamFe == <<"t", "e", "a", "m", "-", "f", "e">>
Alice == <<"a", "l", "i", "c", "e">>
CorpEmail == <<"u", "s", "e", "r", "@", "c", "o", "r", "p", ".", "c", "o", "m">>
Names == {TeamFe, Alice}
Emails == {CorpEmail}

\* the backing array of a slice after remove has written s[i] = s[len(s)-1]; the
\* slice is the first n elements of the array
removeWrites(array, n, i) == [array EXCEPT ![i + 1] = array[n]]

\* the backing array after filterSlice has run on its first n elements
RECURSIVE filterSliceWrites(_, _, _)
filterSliceWrites(array, n, filterAgainst) ==
    IF filterAgainst = <<>> THEN array
    ELSE LET originalIndex == IndexFunc(SubSeq(array, 1, n), filterAgainst[1])
         IN  IF foundInOriginal(originalIndex)
             THEN filterSliceWrites(removeWrites(array, n, originalIndex), n - 1,
                                    Tail(filterAgainst))
             ELSE filterSliceWrites(array, n, Tail(filterAgainst))

\* checkOwners, lines 234-237: make and copy give the remaining list a backing
\* array of its own; a remaining list that were the argument itself would share
\* the caller's array
sharedWithCaller(list) == "caller"
editableCopy(list) == "private"

\* what the caller's slice holds after filterSlice has run on the first n
\* elements of a list with that backing array
callerListAfter(list, backing, n, filterAgainst) ==
    IF backing = "caller" THEN filterSliceWrites(list, n, filterAgainst) ELSE list

\* len(remainingUsersGroups) == 0 && len(remainingEmails) == 0
allCheckedOffNever(ug, emails) == FALSE
allCheckedOff(ug, emails) == Len(ug) = 0 /\ Len(emails) = 0

\* the bare return after a failed query: checkOwners ends, whatever stage would
\* have come next
onQueryErrorContinue(next) == next
onQueryError(next) == "returned"

InitOwners ==
    /\ pc = "checkOwners"
    /\ co = IdleCo
    /\ lineIdx = 0
    /\ parsed = NoParsed
    /\ owners = NoOwners
    /\ maps = EmptyMaps
    /\ fp = IdleFp
    /\ chk \in {[IdleChk EXCEPT !.ugList = ug, !.emailList = em] :
                    ug \in SeqsUpTo(Names, MaxCandidates), em \in SeqsUpTo(Emails, MaxCandidates)}
    /\ calls = <<>>
    /\ flt = IdleFlt
    /\ hp = IdleHp
    /\ gq = IdleGq
    /\ mn = IdleMn
    /\ loc = IdleLoc

\* checkOwners, lines 233-248: the lists are copied and the direct groups of the
\* project are queried; the query fails or returns group paths
CheckOwnersGroups ==
    /\ pc = "checkOwners"
    /\ calls' = Append(calls, "GROUPS")
    /\ \/ /\ chk' = [chk EXCEPT !.remainingUsersGroups = chk.ugList,
                                !.remainingEmails = chk.emailList,
                                !.ugBacking = editableCopy(chk.ugList),
                                !.emailBacking = editableCopy(chk.emailList),
                                !.err = TRUE]
          /\ pc' = onQueryError("stage2")
       \/ \E groupsFound \in SeqsUpTo(Names, MaxFound) :
             LET ug == filterSlice(chk.ugList, groupsFound)
             IN  /\ chk' = [chk EXCEPT !.remainingUsersGroups = ug,
                                       !.remainingEmails = chk.emailList,
                                       !.ugBacking = editableCopy(chk.ugList),
                                       !.emailBacking = editableCopy(chk.emailList),
                                       !.ugList = callerListAfter(chk.ugList,
                                                      editableCopy(chk.ugList),
                                                      Len(chk.ugList), groupsFound),
                                       !.groupsFound = groupsFound,
                                       !.stages = Append(chk.stages,
                                                      [ug |-> ug, emails |-> chk.emailList,
                                                       found |-> groupsFound,
                                                       emailsFound |-> <<>>])]
                 /\ pc' = IF allCheckedOff(ug, chk.emailList) THEN "returned" ELSE "stage2"
    /\ UNCHANGED <<co, lineIdx, parsed, owners, maps, fp, flt, hp, gq, mn, loc>>

\* one stage of checkOwners that queries GetDirectUserMembers with userSource and
\* filters both remaining lists with what it returns
UserStage(userSource, next) ==
    /\ calls' = Append(calls, userSource)
    /\ \/ /\ chk' = [chk EXCEPT !.err = TRUE]
          /\ pc' = onQueryError(next)
       \/ \E usernamesFound \in SeqsUpTo(Names, MaxFound),
             emailsFound \in SeqsUpTo(Emails, MaxFound) :
             LET ug == filterSlice(chk.remainingUsersGroups, usernamesFound)
                 em == filterSlice(chk.remainingEmails, emailsFound)
             IN  /\ chk' = [chk EXCEPT !.remainingUsersGroups = ug,
                                       !.remainingEmails = em,
                                       !.ugList = callerListAfter(chk.ugList, chk.ugBacking,
                                                      Len(chk.remainingUsersGroups),
                                                      usernamesFound),
                                       !.emailList = callerListAfter(chk.emailList,
                                                      chk.emailBacking,
                                                      Len(chk.remainingEmails), emailsFound),
                                       !.usernamesFound = usernamesFound,
                                       !.emailsFound = emailsFound,
                                       !.stages = Append(chk.stages,
                                                      [ug |-> ug, emails |-> em,
                                                       found |-> usernamesFound,
                                                       emailsFound |-> emailsFound])]
                 /\ pc' = IF next = "returned" \/ allCheckedOff(ug, em) THEN "returned" ELSE next
    /\ UNCHANGED <<co, lineIdx, parsed, owners, maps, fp, flt, hp, gq, mn, loc>>

\* checkOwners, lines 250-260: users that are members through invited groups
CheckOwnersInvitedGroups ==
    /\ pc = "stage2"
    /\ UserStage("INVITED_GROUPS", "stage3")

\* checkOwners, lines 262-270: users that are direct members themselves
CheckOwnersDirect ==
    /\ pc = "stage3"
    /\ UserStage("DIRECT", "returned")

NextOwners == CheckOwnersGroups \/ CheckOwnersInvitedGroups \/ CheckOwnersDirect

SpecOwners == InitOwners /\ [][NextOwners]_vars

-----------------------------------------------------------------------------
(* main.filterSlice, one iteration of its loop at a time                   *)

MaxFilterLen == 3    \* longest list handed to filterSlice on its own

FilterElements == Names \cup Emails

InitFilter ==
    /\ pc = "filterSlice"
    /\ co = IdleCo
    /\ lineIdx = 0
    /\ parsed = NoParsed
    /\ owners = NoOwners
    /\ maps = EmptyMaps
    /\ fp = IdleFp
    /\ chk = IdleChk
    /\ calls = <<>>
    /\ flt \in {[IdleFlt EXCEPT !.input = o, !.original = o, !.filterAgainst = f] :
                    o \in SeqsUpTo(FilterElements, MaxFilterLen),
                    f \in SeqsUpTo(FilterElements, MaxFilterLen)}
    /\ hp = IdleHp
    /\ gq = IdleGq
    /\ mn = IdleMn
    /\ loc = IdleLoc

\* filterSlice, lines 314-322: the next element of filterAgainst is looked up in
\* the working slice and removed from it when it is there
FilterSliceStep ==
    /\ pc = "filterSlice"
    /\ flt.idx < Len(flt.filterAgainst)
    /\ LET filterElement == flt.filterAgainst[flt.idx + 1]
       IN  IF filterStepPanics(flt.original, filterElement)
           THEN /\ pc' = "panic"
                /\ flt' = flt
           ELSE /\ pc' = pc
                /\ flt' = [flt EXCEPT !.original = filterStep(flt.original, filterElement),
                                      !.idx = flt.idx + 1]
    /\ UNCHANGED <<co, lineIdx, parsed, owners, maps, fp, chk, calls, hp, gq, mn, loc>>

\* filterSlice, line 323: the loop is over and the working slice is returned
FilterSliceReturn ==
    /\ pc = "filterSlice"
    /\ flt.idx = Len(flt.filterAgainst)
    /\ pc' = "filtered"
    /\ UNCHANGED <<co, lineIdx, parsed, owners, maps, fp, chk, calls, flt, hp, gq, mn, loc>>

NextFilter == FilterSliceStep \/ FilterSliceReturn

SpecFilter == InitFilter /\ [][NextFilter]_vars

-----------------------------------------------------------------------------
(* rest.Server and graphql.Server, the membership sources that main hands  *)
(* to checkOwners, and checkOwners run against them page by page           *)

MaxPages == 2        \* most pages one membership query fetches

\* An HTTP exchange with the GitLab server, as the request functions see it:
\* transport "fail" stands for every failure before a response arrives (invalid
\* URL, request not built, client.Do failing); with "readfail" the status has
\* arrived and io.ReadAll fails, body being the bytes read until then; with "ok"
\* a status code and a body arrive.
NilBody == [kind |-> "nil"]
MalformedBody == [kind |-> "malformed"]       \* text that json.Unmarshal rejects
FailedExchange == [transport |-> "fail", status |-> 0, body |-> NilBody]
StatusCodes == {200, 500}

\* the bodies of GET /projects/<path>: null, or a project with its
\* shared_with_groups
GroupPaths == {TeamFe}
RestBodies ==
    {MalformedBody, [kind |-> "null"]}
        \cup {[kind |-> "project", sharedWithGroups |-> gs] : gs \in SeqsUpTo(GroupPaths, MaxFound)}
RestExchanges ==
    {FailedExchange}
        \cup {[transport |-> t, status |-> st, body |-> b] :
                t \in {"ok", "readfail"}, st \in StatusCodes, b \in RestBodies}

\* rest.RestRequest: an error for a failed transport and for a status other
\* than 200
RestRequest(x) ==
    IF x.transport = "fail" THEN [statusCode |-> 0, jsonResponse |-> NilBody, err |-> TRUE]
    ELSE IF x.transport = "readfail"
         THEN [statusCode |-> x.status, jsonResponse |-> x.body, err |-> TRUE]
    ELSE [statusCode |-> x.status, jsonResponse |-> x.body, err |-> x.status # 200]

\* rest.GetProjectByPath: panics on a path without "/" (after a leading "/" is
\* trimmed), else requests the project and decodes the response
GetProjectByPath(projectFullPath, x) ==
    LET path == TrimPrefix(projectFullPath, <<"/">>)
        r == RestRequest(x)
    IN  IF ~Contains(path, "/") THEN [panic |-> TRUE, err |-> FALSE, project |-> [kind |-> "null"]]
        ELSE IF r.err THEN [panic |-> FALSE, err |-> TRUE, project |-> [kind |-> "null"]]
        ELSE IF r.jsonResponse.kind \notin {"null", "project"}
             THEN [panic |-> FALSE, err |-> TRUE, project |-> [kind |-> "null"]]
        ELSE [panic |-> FALSE, err |-> FALSE, project |-> r.jsonResponse]

\* rest.GetDirectGroupMembers: the full paths of the groups the project is
\* shared with; no groups when the project is nil
GetDirectGroupMembers(projectFullPath, x) ==
    LET p == GetProjectByPath(projectFullPath, x)
    IN  IF p.panic THEN [panic |-> TRUE, err |-> FALSE, groups |-> <<>>]
        ELSE IF p.err THEN [panic |-> FALSE, err |-> TRUE, groups |-> <<>>]
        ELSE IF p.project.kind = "null" THEN [panic |-> FALSE, err |-> FALSE, groups |-> <<>>]
        ELSE [panic |-> FALSE, err |-> FALSE, groups |-> p.project.sharedWithGroups]

\* the members a page of projectMembers can hold: a user without email, a user
\* whose public email is also among their emails, a user with a private email
Bob == <<"b", "o", "b">>
AliceNoEmail == [username |-> Alice, publicEmail |-> <<>>, emails |-> <<>>]
AlicePublicEmail == [username |-> Alice, publicEmail |-> CorpEmail, emails |-> <<CorpEmail>>]
BobPrivateEmail == [username |-> Bob, publicEmail |-> <<>>, emails |-> <<CorpEmail>>]

\* the member lists a page can hold
NodeLists == {<<>>, <<AliceNoEmail>>, <<BobPrivateEmail, AlicePublicEmail>>}

\* the cursors of the pages
Cursors == {"c1", "c2"}

\* the bodies of a projectMembers query: JSON that carries a non-empty "errors"
\* array and no data, or JSON with the data of one page
ErrorsBody ==
    [kind |-> "json", errors |-> TRUE, nodes |-> <<>>, hasNextPage |-> FALSE, endCursor |-> NoCursor]
PageBodies ==
    {[kind |-> "json", errors |-> FALSE, nodes |-> ns, hasNextPage |-> FALSE, endCursor |-> NoCursor] :
        ns \in NodeLists}
    \cup {[kind |-> "json", errors |-> FALSE, nodes |-> ns, hasNextPage |-> TRUE, endCursor |-> c] :
            ns \in NodeLists, c \in Cursors}
GraphQlExchanges ==
    {FailedExchange}
        \cup {[transport |-> t, status |-> st, body |-> b] :
                t \in {"ok", "readfail"}, st \in StatusCodes,
                b \in {MalformedBody, ErrorsBody}}
        \cup {[transport |-> t, status |-> st, body |-> b] :
                t \in {"ok", "readfail"}, st \in StatusCodes, b \in PageBodies}

\* graphql.getGraphQlErrors: an error when the body is not JSON or its "errors"
\* array is not empty
getGraphQlErrors(jsonResponse) == jsonResponse.kind # "json" \/ jsonResponse.errors

\* graphql.RunGraphQlQuery: the returns before the response carry no body, the
\* return after a failed io.ReadAll carries the status and the bytes read; after
\* the body is read, the error set for a status other than 200 is overwritten by
\* the result of getGraphQlErrors
RunGraphQlQuery(y) ==
    IF y.transport = "fail" THEN [statusCode |-> 0, responseBody |-> NilBody, err |-> TRUE]
    ELSE IF y.transport = "readfail"
         THEN [statusCode |-> y.status, responseBody |-> y.body, err |-> TRUE]
    ELSE LET statusErr == y.status # 200
             err == getGraphQlErrors(y.body)
         IN  [statusCode |-> y.status, responseBody |-> y.body, err |-> err]

\* GetDirectUserMembers, line 31: the test after RunGraphQlQuery reads the named
\* result err, not queryErr
pageFetchFailed(err, queryErr) == err

\* json.Unmarshal(jsonResponse, &queryResults) fails unless the body is JSON
unmarshalFails(jsonResponse) == jsonResponse.kind # "json"

\* GetDirectUserMembers, lines 42-53: the usernames of a page's members, and
\* their emails: the public email when there is one, then the other emails
emailsOfMember(member) ==
    (IF member.publicEmail # <<>> THEN <<member.publicEmail>> ELSE <<>>)
        \o SelectSeq(member.emails, LAMBDA e : e # member.publicEmail)
RECURSIVE emailsOfNodes(_)
emailsOfNodes(nodes) ==
    IF nodes = <<>> THEN <<>> ELSE emailsOfMember(nodes[1]) \o emailsOfNodes(Tail(nodes))
usernamesOfNodes(nodes) == [i \in 1..Len(nodes) |-> nodes[i].username]

\* GetDirectUserMembers, lines 55-60: the cursor of the query for the next page
nextPageAfterNone(pageInfo) == NoCursor
nextPageAfter(pageInfo) == pageInfo.endCursor

\* userSource is one of DIRECT, INVITED_GROUPS
validUserSource(userSource) == userSource \in {"DIRECT", "INVITED_GROUPS"}

\* the project paths and candidate lists of the runs against the servers
ProjectPaths == {<<"g", "/", "p">>, <<"/", "g", "/", "p">>, <<"g", "p">>, <<"/", "g", "p">>}
ReconcileCandidates ==
    {[IdleChk EXCEPT !.ugList = ug, !.emailList = em] :
        ug \in {<<TeamFe, Alice>>, <<Alice>>}, em \in {<<>>, <<CorpEmail>>}}

InitReconcile ==
    /\ pc = "checkOwners"
    /\ co = IdleCo
    /\ lineIdx = 0
    /\ parsed = NoParsed
    /\ owners = NoOwners
    /\ maps = EmptyMaps
    /\ fp = IdleFp
    /\ chk \in ReconcileCandidates
    /\ calls = <<>>
    /\ flt = IdleFlt
    /\ hp = IdleHp
    /\ gq \in {[IdleGq EXCEPT !.projectFullPath = p] : p \in ProjectPaths}
    /\ mn = IdleMn
    /\ loc = IdleLoc

\* checkOwners, lines 233-248, with rest.Server as the group source
ReconcileGroups ==
    /\ pc = "checkOwners"
    /\ calls' = Append(calls, "GROUPS")
    /\ \E x \in RestExchanges :
          LET r == GetDirectGroupMembers(gq.projectFullPath, x)
              ug == filterSlice(chk.ugList, r.groups)
          IN  IF r.panic
              THEN /\ pc' = "panic"
                   /\ chk' = [chk EXCEPT !.remainingUsersGroups = chk.ugList,
                                         !.remainingEmails = chk.emailList,
                                         !.ugBacking = editableCopy(chk.ugList),
                                         !.emailBacking = editableCopy(chk.emailList)]
              ELSE IF r.err
              THEN /\ pc' = onQueryError("stage2")
                   /\ chk' = [chk EXCEPT !.remainingUsersGroups = chk.ugList,
                                         !.remainingEmails = chk.emailList,
                                         !.ugBacking = editableCopy(chk.ugList),
                                         !.emailBacking = editableCopy(chk.emailList),
                                         !.err = TRUE]
              ELSE /\ pc' = IF allCheckedOff(ug, chk.emailList) THEN "returned" ELSE "stage2"
                   /\ chk' = [chk EXCEPT !.remainingUsersGroups = ug,
                                         !.remainingEmails = chk.emailList,
                                         !.ugBacking = editableCopy(chk.ugList),
                                         !.emailBacking = editableCopy(chk.emailList),
                                         !.ugList = callerListAfter(chk.ugList,
                                                        editableCopy(chk.ugList),
                                                        Len(chk.ugList), r.groups),
                                         !.groupsFound = r.groups,
                                         !.stages = Append(chk.stages,
                                                        [ug |-> ug, emails |-> chk.emailList,
                                                         found |-> r.groups,
                                                         emailsFound |-> <<>>])]
    /\ UNCHANGED <<co, lineIdx, parsed, owners, maps, fp, flt, hp, gq, mn, loc>>

\* GetDirectUserMembers, lines 19-28: the source is validated and the query for
\* the first page is built
EnterUserQuery(userSource) ==
    /\ calls' = Append(calls, userSource)
    /\ gq' = [IdleGq EXCEPT !.projectFullPath = gq.projectFullPath,
                               !.userSource = userSource]
    /\ pc' = IF validUserSource(userSource) THEN "page" ELSE "panic"
    /\ UNCHANGED <<co, lineIdx, parsed, owners, maps, fp, chk, flt, hp, mn, loc>>

\* checkOwners, line 252
ReconcileInvitedGroups ==
    /\ pc = "stage2"
    /\ EnterUserQuery("INVITED_GROUPS")

\* checkOwners, line 264
ReconcileDirect ==
    /\ pc = "stage3"
    /\ EnterUserQuery("DIRECT")

\* GetDirectUserMembers, lines 29-65: one iteration of the page loop
FetchPage ==
    /\ pc = "page"
    /\ \E y \in GraphQlExchanges :
          LET r == RunGraphQlQuery(y)
              sent == [gq EXCEPT !.requests = Append(gq.requests, gq.after),
                                 !.queryFailed = gq.queryFailed \/ r.err]
              body == r.responseBody
          IN  /\ (body.kind = "json" /\ body.hasNextPage) => Len(gq.requests) + 1 < MaxPages
              /\ IF pageFetchFailed(gq.err, r.err)
                 THEN /\ gq' = [sent EXCEPT !.err = TRUE]
                      /\ pc' = "queried"
                 ELSE IF unmarshalFails(body)
                 THEN /\ gq' = [sent EXCEPT !.err = TRUE]
                      /\ pc' = "queried"
                 ELSE LET merged ==
                              [sent EXCEPT
                                 !.usernamesFound = gq.usernamesFound \o usernamesOfNodes(body.nodes),
                                 !.emailsFound = gq.emailsFound \o emailsOfNodes(body.nodes),
                                 !.pages = Append(gq.pages,
                                               [usernames |-> usernamesOfNodes(body.nodes),
                                                emails |-> emailsOfNodes(body.nodes),
                                                hasNextPage |-> body.hasNextPage,
                                                endCursor |-> body.endCursor])]
                      IN  IF body.hasNextPage
                          THEN /\ gq' = [merged EXCEPT !.after = nextPageAfter(body)]
                               /\ pc' = "page"
                          ELSE /\ gq' = merged
                               /\ pc' = "queried"
    /\ UNCHANGED <<co, lineIdx, parsed, owners, maps, fp, chk, calls, flt, hp, mn, loc>>

\* the stage of checkOwners that follows the one that queried userSource
stageAfter(userSource) == IF userSource = "INVITED_GROUPS" THEN "stage3" ELSE "returned"

\* checkOwners, lines 252-260 and 264-270: GetDirectUserMembers has returned;
\* on an error checkOwners returns, else both remaining lists are filtered
ReconcileUserStageReturn ==
    /\ pc = "queried"
    /\ IF gq.err
       THEN /\ chk' = [chk EXCEPT !.usernamesFound = gq.usernamesFound,
                                  !.emailsFound = gq.emailsFound,
                                  !.err = TRUE]
            /\ pc' = onQueryError(stageAfter(gq.userSource))
       ELSE LET ug == filterSlice(chk.remainingUsersGroups, gq.usernamesFound)
                em == filterSlice(chk.remainingEmails, gq.emailsFound)
            IN  /\ chk' = [chk EXCEPT !.remainingUsersGroups = ug,
                                      !.remainingEmails = em,
                                      !.ugList = callerListAfter(chk.ugList, chk.ugBacking,
                                                     Len(chk.remainingUsersGroups),
                                                     gq.usernamesFound),
                                      !.emailList = callerListAfter(chk.emailList,
                                                     chk.emailBacking,
                                                     Len(chk.remainingEmails),
                                                     gq.emailsFound),
                                      !.usernamesFound = gq.usernamesFound,
                                      !.emailsFound = gq.emailsFound,
                                      !.stages = Append(chk.stages,
                                                     [ug |-> ug, emails |-> em,
                                                      found |-> gq.usernamesFound,
                                                      emailsFound |-> gq.emailsFound])]
                /\ pc' = IF allCheckedOff(ug, em) THEN "returned" ELSE stageAfter(gq.userSource)
    /\ UNCHANGED <<co, lineIdx, parsed, owners, maps, fp, calls, flt, hp, gq, mn, loc>>

NextReconcile ==
    \/ ReconcileGroups
    \/ ReconcileInvitedGroups
    \/ ReconcileDirect
    \/ FetchPage
    \/ ReconcileUserStageReturn

SpecReconcile == InitReconcile /\ [][NextReconcile]_vars

\* checkOwners is sequential code: each step is taken once the one before it
\* has ended, every request to a server returning (FetchPage and
\* ReconcileGroups draw a response) and a query having at most MaxPages pages
SpecReconcileFair == SpecReconcile /\ WF_vars(NextReconcile)

-----------------------------------------------------------------------------
(* graphql.CheckCodeownersSyntax and main.main                             *)

MaxValidationErrors == 1   \* largest total and most validationErrors in a syntax report

\* the bodies of a validateCodeownerFile query: the file is null (not found at
\* the path), or a report with a total and a number of validationErrors
NullFile == [null |-> TRUE, total |-> 0, validationErrors |-> 0]
SyntaxBodies ==
    {[kind |-> "json", errors |-> FALSE, validateCodeownerFile |-> v] :
        v \in {NullFile} \cup {[null |-> FALSE, total |-> t, validationErrors |-> n] :
                                  t \in 0..MaxValidationErrors, n \in 0..MaxValidationErrors}}
SyntaxExchanges ==
    {FailedExchange}
        \cup {[transport |-> t, status |-> st, body |-> b] :
                t \in {"ok", "readfail"}, st \in StatusCodes,
                b \in {MalformedBody, ErrorsBody} \cup SyntaxBodies}

\* graphql.CheckCodeownersSyntax: TRUE when it returns an error.  With a total
\* above zero the error is errors.Join of one error per validationError, which
\* is nil for an empty list.
CheckCodeownersSyntax(y) ==
    LET r == RunGraphQlQuery(y)
    IN  IF r.err THEN TRUE
        ELSE IF unmarshalFails(r.responseBody) THEN TRUE
        ELSE LET v == r.responseBody.validateCodeownerFile
             IN  IF v.null THEN TRUE
                 ELSE IF v.total > 0 THEN v.validationErrors > 0
                 ELSE FALSE

\* main, lines 142-146: log.Fatalln ends the process on a syntax error; else
\* Analyze is called
onSyntaxErrorContinue == "Analyze"
onSyntaxError == "exit"

\* the CODEOWNERS files of the runs of main: the two lines of the end-to-end
\* example, one of them, and a file with the pattern "*" only
MainFileContents ==
    {Join(<<FrontendLine, AppLine>>, <<"\n">>), AppLine, <<"*">>}

\* CI_PROJECT_PATH
MainProjectPaths == {<<"g", "/", "p">>, <<"g", "p">>}

InitMain ==
    /\ pc = "main"
    /\ co \in NewCos
    /\ lineIdx = 0
    /\ parsed = NoParsed
    /\ owners = NoOwners
    /\ maps = EmptyMaps
    /\ fp = IdleFp
    /\ chk = IdleChk
    /\ calls = <<>>
    /\ flt = IdleFlt
    /\ hp = IdleHp
    /\ gq = IdleGq
    /\ mn = IdleMn
    /\ loc = IdleLoc

\* main, lines 120-139: the environment is read; a missing variable ends the
\* process
MainSetup ==
    /\ pc = "main"
    /\ \/ /\ pc' = "exit"
          /\ gq' = gq
       \/ /\ pc' = "syntax"
          /\ \E p \in MainProjectPaths : gq' = [gq EXCEPT !.projectFullPath = p]
    /\ UNCHANGED <<co, lineIdx, parsed, owners, maps, fp, chk, calls, flt, hp, mn, loc>>

\* main, lines 140-146: the syntax check, and the call of Analyze when it
\* reports no error
MainCheckSyntax ==
    /\ pc = "syntax"
    /\ \E y \in SyntaxExchanges :
          LET err == CheckCodeownersSyntax(y)
          IN  /\ mn' = [mn EXCEPT !.syntaxErr = err,
                                  !.trace = mn.trace \o <<"CheckCodeownersSyntax">>
                                              \o (IF err /\ onSyntaxError = "exit"
                                                  THEN <<>> ELSE <<"Analyze">>)]
              /\ pc' = IF err THEN onSyntaxError ELSE "Analyze"
    /\ UNCHANGED <<co, lineIdx, parsed, owners, maps, fp, chk, calls, flt, hp, gq, loc>>

\* Analyze, lines 59-61, reading one of the files of main's runs
MainReadCodeownersFile ==
    /\ pc = "Analyze"
    /\ ReadCodeownersFileFrom(MainFileContents)

\* main, lines 147-153: checkOwners is called with the analysed owner lists
MainCallCheckOwners ==
    /\ pc = "analyzed"
    /\ chk' = [IdleChk EXCEPT !.ugList = co.UserAndGroupPatterns,
                              !.emailList = co.EmailPatterns]
    /\ mn' = [mn EXCEPT !.trace = Append(mn.trace, "checkOwners")]
    /\ pc' = "checkOwners"
    /\ UNCHANGED <<co, lineIdx, parsed, owners, maps, fp, calls, flt, hp, gq, loc>>

\* main, lines 154-166: checkOwners has returned; an error panics, leftovers are
\* noted as failed checks, and checkFilePatterns is called
MainAfterCheckOwners ==
    /\ pc = "returned"
    /\ IF chk.err
       THEN /\ pc' = "panic"
            /\ UNCHANGED <<fp, mn, loc>>
       ELSE /\ pc' = "checkFilePatterns"
            /\ \E fs \in FileSystemsFor(co.FilePatterns) :
                  fp' = [IdleFp EXCEPT !.filePatterns = co.FilePatterns, !.fs = fs]
            /\ mn' = [mn EXCEPT
                        !.failedChecks =
                            mn.failedChecks
                              \o (IF Len(chk.remainingUsersGroups) > 0 THEN <<"usersGroups">> ELSE <<>>)
                              \o (IF Len(chk.remainingEmails) > 0 THEN <<"emails">> ELSE <<>>),
                        !.trace = Append(mn.trace, "checkFilePatterns")]
    /\ UNCHANGED <<co, lineIdx, parsed, owners, maps, chk, calls, flt, hp, gq, loc>>

\* main, lines 167-175, and handleFailures: checkFilePatterns has returned; an
\* error panics, bad patterns are noted, and noted failures end the process
\* with log.Fatal
MainAfterCheckFilePatterns ==
    /\ pc = "checkedFilePatterns"
    /\ IF fp.err
       THEN /\ pc' = "panic"
            /\ mn' = mn
       ELSE LET failedChecks ==
                    mn.failedChecks
                      \o (IF Len(fp.badPatterns) > 0 THEN <<"filePatterns">> ELSE <<>>)
            IN  /\ mn' = [mn EXCEPT !.failedChecks = failedChecks]
                /\ pc' = IF Len(failedChecks) > 0 THEN "exit" ELSE "done"
    /\ UNCHANGED <<co, lineIdx, parsed, owners, maps, fp, chk, calls, flt, hp, gq, loc>>

NextMain ==
    \/ MainSetup
    \/ MainCheckSyntax
    \/ MainReadCodeownersFile
    \/ ReadCodeownersFileFails
    \/ AnalyzeLine
    \/ AnalyzeFinish
    \/ MainCallCheckOwners
    \/ ReconcileGroups
    \/ ReconcileInvitedGroups
    \/ ReconcileDirect
    \/ FetchPage
    \/ ReconcileUserStageReturn
    \/ MainAfterCheckOwners
    \/ CheckFilePatternSkipStar
    \/ CheckFilePatternGlob
    \/ CheckFilePatternsReturn
    \/ MainAfterCheckFilePatterns

SpecMain == InitMain /\ [][NextMain]_vars

-----------------------------------------------------------------------------
(* The helper functions applied on their own, with the bounds checks that  *)
(* the Go runtime makes on their index and slice expressions               *)

\* splitCodeownersLine indexes line[i-1] for every i > 0 that its loop visits,
\* and slices line[:splitPosition] and line[splitPosition+1:] after a break
splitCodeownersLinePanics(rawLine) ==
    LET line == TrimSpace(rawLine)
    IN  /\ ~isSkippedLine(line)
        /\ LET sp == findSplit(line, 0, FALSE, FALSE, FALSE).splitPosition
               lastVisited == IF sp = 0 THEN Len(line) - 1 ELSE sp
           IN  \/ \E i \in 0..lastVisited : i > 0 /\ ~indexInRange(i - 1, Len(line))
               \/ /\ sp # 0
                  /\ \/ ~sliceInRange(0, sp, Len(line))
                     \/ ~sliceInRange(sp + 1, Len(line), Len(line))

\* the characters of the owner texts enumerated exhaustively
OwnerAlphabet == {"a", "@", " ", "\t", VerticalTab}

HelperInputs ==
    {[IdleHp EXCEPT !.fn = "splitCodeownersLine", !.input = l] :
        l \in SeqsUpTo(LineAlphabet, MaxLineLen) \cup SampleLines}
    \cup {[IdleHp EXCEPT !.fn = "splitOwnerPatterns", !.input = o] :
            o \in SeqsUpTo(OwnerAlphabet, MaxLineLen)}
    \cup {[IdleHp EXCEPT !.fn = "translateCoToGlob", !.input = p] :
            p \in FilePatternInputs}

InitHelpers ==
    /\ co = IdleCo
    /\ lineIdx = 0
    /\ parsed = NoParsed
    /\ owners = NoOwners
    /\ maps = EmptyMaps
    /\ fp = IdleFp
    /\ chk = IdleChk
    /\ calls = <<>>
    /\ gq = IdleGq
    /\ mn = IdleMn
    /\ loc = IdleLoc
    /\ \/ /\ pc = "helper"
          /\ hp \in HelperInputs
          /\ flt = IdleFlt
       \/ /\ pc = "filterSlice"
          /\ hp = [IdleHp EXCEPT !.fn = "filterSlice"]
          /\ flt \in {[IdleFlt EXCEPT !.input = o, !.original = o, !.filterAgainst = f] :
                          o \in SeqsUpTo(FilterElements, MaxFilterLen),
                          f \in SeqsUpTo(FilterElements, MaxFilterLen)}

ApplySplitCodeownersLine ==
    /\ pc = "helper"
    /\ hp.fn = "splitCodeownersLine"
    /\ IF splitCodeownersLinePanics(hp.input)
       THEN /\ pc' = "panic"
            /\ hp' = hp
       ELSE /\ pc' = "helped"
            /\ hp' = [hp EXCEPT !.output = splitCodeownersLine(hp.input)]
    /\ UNCHANGED <<co, lineIdx, parsed, owners, maps, fp, chk, calls, flt, gq, mn, loc>>

ApplySplitOwnerPatterns ==
    /\ pc = "helper"
    /\ hp.fn = "splitOwnerPatterns"
    /\ pc' = "helped"
    /\ hp' = [hp EXCEPT !.output = splitOwnerPatterns(hp.input)]
    /\ UNCHANGED <<co, lineIdx, parsed, owners, maps, fp, chk, calls, flt, gq, mn, loc>>

ApplyTranslateCoToGlob ==
    /\ pc = "helper"
    /\ hp.fn = "translateCoToGlob"
    /\ pc' = "helped"
    /\ hp' = [hp EXCEPT !.output = translateCoToGlob(hp.input)]
    /\ UNCHANGED <<co, lineIdx, parsed, owners, maps, fp, chk, calls, flt, gq, mn, loc>>

NextHelpers ==
    \/ ApplySplitCodeownersLine
    \/ ApplySplitOwnerPatterns
    \/ ApplyTranslateCoToGlob
    \/ FilterSliceStep
    \/ FilterSliceReturn

SpecHelpers == InitHelpers /\ [][NextHelpers]_vars

-----------------------------------------------------------------------------
(* Properties of the line parser, stated on the line that Analyze's loop   *)
(* has just parsed, without reference to the scan above                    *)

\* the line last parsed, and its trimmed text
CurLine == co.CodeownersFileLines[lineIdx]
Trimmed == TrimSpace(CurLine)

\* the trimmed text is neither blank nor a comment, so the parser scans it
Scanned(t) == t # <<>> /\ t[1] # "#"

\* the character at (1-based) position i comes right after a backslash
AfterBackslash(t, i) == i > 1 /\ t[i - 1] = "\\"

\* the text begins with a section heading opener
OpensHeading(t) == t[1] = "[" \/ (Len(t) >= 2 /\ t[1] = "^" /\ t[2] = "[")

\* a ']' not preceded by a backslash occurs at or before position i
ClosedBy(t, i) == \E j \in 1..i : t[j] = "]" /\ ~AfterBackslash(t, j)

\* the positions at which the text may be split
SplitPoints(t) ==
    {i \in 1..Len(t) : /\ t[i] \in {" ", "\t"}
                       /\ ~AfterBackslash(t, i)
                       /\ ~(OpensHeading(t) /\ ~ClosedBy(t, i))}

\* the heading or pattern returned for the line
LeftPart == IF parsed.sectionHeading # <<>> THEN parsed.sectionHeading ELSE parsed.filePattern

\* C1: every line that is scanned (not blank, not a comment) is split at the first
\* space or tab that does not follow a backslash and is not inside a heading that
\* is open and not yet closed; a space that follows a backslash is never the split
\* point; with no such character the whole trimmed line is the heading or pattern
\* and the owner patterns text is empty.
C1_SplitAtFirstUnescapedWhitespace ==
    (lineIdx > 0 /\ Scanned(Trimmed)) =>
        LET t == Trimmed
        IN  /\ IF SplitPoints(t) = {}
               THEN LeftPart = t /\ parsed.ownerPatterns = <<>>
               ELSE LET sp == Min(SplitPoints(t))
                    IN  /\ LeftPart = SubSeq(t, 1, sp - 1)
                        /\ parsed.ownerPatterns = SubSeq(t, sp + 1, Len(t))
            /\ Len(LeftPart) < Len(t) =>
                  /\ t[Len(LeftPart) + 1] \in {" ", "\t"}
                  /\ t[Len(LeftPart)] # "\\"

C1_Witness ==
    /\ lineIdx > 0
    /\ CurLine = EscapedSpaceLine
    /\ parsed.filePattern = <<"d", "o", "c", "s", "/", "\\", " ", "f", "i", "l", "e", ".", "m", "d">>
    /\ parsed.ownerPatterns = <<"@", "u", "s", "e", "r">>

\* C2: at most one of sectionHeading and filePattern is non-empty, and a blank or
\* white-space-only line and a line whose trimmed text starts with '#' give three
\* empty results.
C2_AtMostOneAndSkippedLinesEmpty ==
    lineIdx > 0 =>
        /\ parsed.sectionHeading = <<>> \/ parsed.filePattern = <<>>
        /\ ((\A i \in 1..Len(CurLine) : IsSpace(CurLine[i])) \/ ~Scanned(Trimmed))
              => parsed = NoParsed

C2_Witness ==
    /\ lineIdx > 0
    /\ CurLine = CommentLine
    /\ parsed = NoParsed

\* C3 as stated: '[Section]  @owner1' gives the heading '[Section]' and the owner
\* patterns text exactly '@owner1'.
C3_OwnerTextWithoutSpace ==
    (lineIdx > 0 /\ CurLine = SectionLine) =>
        /\ parsed.sectionHeading = <<"[", "S", "e", "c", "t", "i", "o", "n", "]">>
        /\ parsed.ownerPatterns = <<"@", "o", "w", "n", "e", "r", "1">>

\* C3 amended: '[Section]  @owner1' gives the heading '[Section]' and the owner
\* patterns text ' @owner1', which keeps the second space; the only owner token
\* found in it is '@owner1'.
C3_OwnerTextKeepsSecondSpace ==
    (lineIdx > 0 /\ CurLine = SectionLine) =>
        /\ parsed.sectionHeading = <<"[", "S", "e", "c", "t", "i", "o", "n", "]">>
        /\ parsed.filePattern = <<>>
        /\ parsed.ownerPatterns = <<" ", "@", "o", "w", "n", "e", "r", "1">>
        /\ owners = [usersOrGroups |-> << <<"@", "o", "w", "n", "e", "r", "1">> >>,
                     emails |-> <<>>, ignored |-> <<>>]

C3_Witness ==
    /\ lineIdx > 0
    /\ CurLine = SectionLine
    /\ parsed.ownerPatterns # <<>>

\* the number of backslashes in a row that end right before position i
RECURSIVE BackslashRun(_, _)
BackslashRun(t, i) == IF i > 1 /\ t[i - 1] = "\\" THEN 1 + BackslashRun(t, i - 1) ELSE 0

\* the character at position i follows a backslash that is not itself escaped
EscapedByUnescapedBackslash(t, i) == BackslashRun(t, i) % 2 = 1

ClosedByUnescaped(t, i) == \E j \in 1..i : t[j] = "]" /\ ~EscapedByUnescapedBackslash(t, j)

SplitPointsUnescaped(t) ==
    {i \in 1..Len(t) : /\ t[i] \in {" ", "\t"}
                       /\ ~EscapedByUnescapedBackslash(t, i)
                       /\ ~(OpensHeading(t) /\ ~ClosedByUnescaped(t, i))}

\* C4: a space, tab or ']' is protected only by an unescaped backslash before it:
\* a backslash that is itself escaped protects nothing, so the line a\\ b is split
\* at its space.
C4_EscapedBackslashDoesNotProtect ==
    (lineIdx > 0 /\ Scanned(Trimmed)) =>
        LET t == Trimmed
        IN  IF SplitPointsUnescaped(t) = {}
            THEN LeftPart = t /\ parsed.ownerPatterns = <<>>
            ELSE LET sp == Min(SplitPointsUnescaped(t))
                 IN  /\ LeftPart = SubSeq(t, 1, sp - 1)
                     /\ parsed.ownerPatterns = SubSeq(t, sp + 1, Len(t))

\* C5: a scanned line is a section heading exactly when its trimmed text begins
\* with '[' or '^[', and otherwise its left part is a file pattern; white space
\* inside a heading that is not closed is no split point, and a ']' that follows a
\* backslash does not close the heading.
C5_HeadingIffBracketOpener ==
    (lineIdx > 0 /\ Scanned(Trimmed)) =>
        LET t == Trimmed
        IN  /\ parsed.sectionHeading # <<>> <=> OpensHeading(t)
            /\ ~OpensHeading(t) => (parsed.filePattern # <<>> /\ parsed.filePattern[1] = t[1])
            /\ (OpensHeading(t) /\ ~ClosedBy(t, Len(t))) =>
                   (parsed.sectionHeading = t /\ parsed.ownerPatterns = <<>>)
            /\ (OpensHeading(t) /\ Len(parsed.sectionHeading) < Len(t)) =>
                   ClosedBy(t, Len(parsed.sectionHeading))

C5_Witness ==
    /\ lineIdx > 0
    /\ CurLine = EscapedBracketLine
    /\ parsed.sectionHeading = <<"[", "a", "\\", "]", " ", "b", "]">>
    /\ parsed.ownerPatterns = <<"@", "x">>

\* C6: for a scanned line that has a split point, the heading or pattern, then the
\* one delimiter character, then the owner patterns text make up the trimmed line:
\* one delimiter is consumed and the white space after it stays in the text.
C6_OneDelimiterConsumed ==
    (lineIdx > 0 /\ Scanned(Trimmed) /\ SplitPoints(Trimmed) # {}) =>
        LET t == Trimmed
            n == Len(LeftPart)
        IN  /\ n < Len(t)
            /\ t[n + 1] \in {" ", "\t"}
            /\ LeftPart \o <<t[n + 1]>> \o parsed.ownerPatterns = t

C6_Witness ==
    /\ lineIdx > 0
    /\ Scanned(Trimmed)
    /\ parsed.ownerPatterns # <<>>
    /\ parsed.ownerPatterns[1] = "\t"
    /\ Len(LeftPart) + 1 + Len(parsed.ownerPatterns) = Len(Trimmed)

-----------------------------------------------------------------------------
(* Properties of the owner classification and of the aggregation           *)

\* the positions at which a white-space-delimited token of s starts
TokenStarts(s) == {i \in 1..Len(s) : ~IsSpace(s[i]) /\ (i = 1 \/ IsSpace(s[i - 1]))}

\* the token of s that starts at position i
TokenAt(s, i) ==
    SubSeq(s, i, Min({j \in i..Len(s) : j = Len(s) \/ IsSpace(s[j + 1])}))

\* the tokens of s that start at the positions in S, in the order of the text
TokensAt(s, S) ==
    [k \in 1..Cardinality(S) |->
        TokenAt(s, CHOOSE i \in S : Cardinality({j \in S : j < i}) = k - 1)]

HasAt(o) == \E i \in 1..Len(o) : o[i] = "@"

\* C7: each white-space-delimited token of the owner patterns text is in exactly
\* one of the three lists, in the order of the text: a token that starts with '@'
\* is a user or group and is stored without that '@', another token that contains
\* '@' is an email and is stored as it is, any other token is ignored; no token
\* is empty.
C7_TokensClassifiedOnce ==
    lineIdx > 0 =>
        LET s == parsed.ownerPatterns
            ugAt == {i \in TokenStarts(s) : s[i] = "@"}
            emailAt == {i \in TokenStarts(s) : s[i] # "@" /\ HasAt(TokenAt(s, i))}
            ignoredAt == {i \in TokenStarts(s) : ~HasAt(TokenAt(s, i))}
            stripped == {Tail(o) : o \in Range(owners.usersOrGroups)}
            \* the end of Analyze deletes the empty name from the set
            names == IF pc = "loop" THEN stripped ELSE stripped \ {<<>>}
        IN  /\ owners.usersOrGroups = TokensAt(s, ugAt)
            /\ owners.emails = TokensAt(s, emailAt)
            /\ owners.ignored = TokensAt(s, ignoredAt)
            /\ Len(owners.usersOrGroups) + Len(owners.emails) + Len(owners.ignored)
                  = Cardinality(TokenStarts(s))
            /\ names \subseteq maps.userAndGroupPatternsMap
            /\ Range(owners.emails) \subseteq maps.emailPatternsMap
            /\ Range(owners.ignored) \subseteq maps.ignoredPatternsMap
            /\ lineIdx = 1 =>
                  /\ maps.userAndGroupPatternsMap = names
                  /\ maps.emailPatternsMap = Range(owners.emails)
                  /\ maps.ignoredPatternsMap = Range(owners.ignored)

C7_Witness ==
    /\ lineIdx = 1
    /\ CurLine = ClassifiedLine
    /\ owners.usersOrGroups = << <<"@", "g", "r", "p", "1">> >>
    /\ maps.userAndGroupPatternsMap = { <<"g", "r", "p", "1">> }
    /\ owners.emails =
          << <<"u", "s", "e", "r", "@", "e", "x", "a", "m", "p", "l", "e", ".", "c", "o", "m">> >>
    /\ owners.ignored = << <<"p", "l", "a", "i", "n", "w", "o", "r", "d">> >>

\* the values that parsing and classifying the lines of the file produce
ProducedBy(f(_)) == UNION {f(l) : l \in Range(co.CodeownersFileLines)}
ProducedHeadings(l) == {splitCodeownersLine(l).sectionHeading}
ProducedPatterns(l) == {splitCodeownersLine(l).filePattern}
ProducedNames(l) ==
    {storedName(ug) :
        ug \in Range(splitOwnerPatterns(splitCodeownersLine(l).ownerPatterns).usersOrGroups)}
ProducedEmails(l) == Range(splitOwnerPatterns(splitCodeownersLine(l).ownerPatterns).emails)
ProducedIgnored(l) == Range(splitOwnerPatterns(splitCodeownersLine(l).ownerPatterns).ignored)

\* a slice without duplicates and without the empty string whose values are the
\* non-empty members of S
IsSliceOf(slice, S) ==
    /\ Cardinality(Range(slice)) = Len(slice)
    /\ <<>> \notin Range(slice)
    /\ Range(slice) = S \ {<<>>}

\* C8: after Analyze each of the five collections has no duplicate, does not hold
\* the empty string, and holds exactly the non-empty values that parsing and
\* classifying some line produced.
C8_CollectionsAreSets ==
    pc = "analyzed" =>
        /\ co.Analyzed
        /\ IsSliceOf(co.SectionHeadings, ProducedBy(ProducedHeadings))
        /\ IsSliceOf(co.FilePatterns, ProducedBy(ProducedPatterns))
        /\ IsSliceOf(co.UserAndGroupPatterns, ProducedBy(ProducedNames))
        /\ IsSliceOf(co.EmailPatterns, ProducedBy(ProducedEmails))
        /\ IsSliceOf(co.IgnoredPatterns, ProducedBy(ProducedIgnored))

C8_Witness ==
    /\ pc = "analyzed"
    /\ co.CodeownersFileLines = <<AppLine, AppLine>>
    /\ co.UserAndGroupPatterns = << <<"a", "l", "i", "c", "e">> >>
    /\ co.FilePatterns = << <<"s", "r", "c", "/", "a", "p", "p", "/">> >>
    /\ parsed.sectionHeading = <<>>
    /\ maps.sectionHeadingsMap = {}
    /\ co.SectionHeadings = <<>>

-----------------------------------------------------------------------------
(* Properties of the glob translation and of the owner check               *)

\* the file pattern that checkFilePatterns handled last
CurPattern == fp.filePatterns[fp.idx]

\* C9: the glob of a file pattern p is '.' followed by p when p starts with '/',
\* and './**/' followed by p otherwise, with '**/*' added at the end when p ends
\* with '/'; so 'src/' gives './**/src/**/*', '/README.md' gives './README.md' and
\* '*.go' gives './**/*.go'.
C9_GlobOfPattern ==
    (fp.idx > 0 /\ CurPattern # Star) =>
        LET p == CurPattern
            g == fp.globExpression
            anchored == p # <<>> /\ p[1] = "/"
            directory == p # <<>> /\ p[Len(p)] = "/"
            front == IF anchored THEN 1 ELSE 5
            back == IF directory THEN 4 ELSE 0
        IN  /\ Len(g) = front + Len(p) + back
            /\ SubSeq(g, 1, front) = (IF anchored THEN <<".">> ELSE <<".", "/", "*", "*", "/">>)
            /\ SubSeq(g, front + 1, front + Len(p)) = p
            /\ SubSeq(g, front + Len(p) + 1, Len(g))
                  = (IF directory THEN <<"*", "*", "/", "*">> ELSE <<>>)
            /\ p = SrcDirPattern =>
                  g = <<".", "/", "*", "*", "/", "s", "r", "c", "/", "*", "*", "/", "*">>
            /\ p = ReadmePattern =>
                  g = <<".", "/", "R", "E", "A", "D", "M", "E", ".", "m", "d">>
            /\ p = GoFilesPattern => g = <<".", "/", "*", "*", "/", "*", ".", "g", "o">>

C9_Witness ==
    /\ fp.idx > 0
    /\ CurPattern = SrcDirPattern
    /\ fp.globExpression = <<".", "/", "*", "*", "/", "s", "r", "c", "/", "*", "*", "/", "*">>
    /\ fp.globCalls # <<>>

\* both remaining lists are empty after the k-th stage that completed
EmptiedAt(k) == chk.stages[k].ug = <<>> /\ chk.stages[k].emails = <<>>

\* C10: the sources are queried in the order groups, INVITED_GROUPS, DIRECT, each
\* at most once; INVITED_GROUPS is queried only if a remaining list is non-empty
\* after the group stage, and DIRECT only if one is non-empty after the
\* INVITED_GROUPS stage; when the group stage empties both lists no other query
\* is made.
C10_StagedQueriesShortCircuit ==
    /\ \E n \in 0..3 : calls = SubSeq(<<"GROUPS", "INVITED_GROUPS", "DIRECT">>, 1, n)
    /\ Len(calls) >= 2 => (Len(chk.stages) >= 1 /\ ~EmptiedAt(1))
    /\ Len(calls) >= 3 => (Len(chk.stages) >= 2 /\ ~EmptiedAt(2))
    /\ (pc = "returned" /\ Len(chk.stages) >= 1 /\ EmptiedAt(1)) => calls = <<"GROUPS">>

C10_Witness ==
    /\ pc = "returned"
    /\ ~chk.err
    /\ chk.ugList = <<TeamFe>>
    /\ chk.groupsFound = <<TeamFe>>
    /\ chk.remainingUsersGroups = <<>>
    /\ chk.remainingEmails = <<>>
    /\ calls = <<"GROUPS">>

-----------------------------------------------------------------------------
(* Results of checkOwners                                                  *)

NoDuplicates(s) == Cardinality(Range(s)) = Len(s)

\* what the stages that ran found: names (group paths in stage 1, usernames
\* in the user stages) and emails (user stages only)
NamesFound == UNION {Range(chk.stages[k].found) : k \in 1..Len(chk.stages)}
EmailsFound == UNION {Range(chk.stages[k].emailsFound) : k \in 1..Len(chk.stages)}

\* C11: when the candidate lists have no duplicates and no query fails,
\* checkOwners returns as remaining users/groups exactly the candidates that are
\* in none of the group paths and usernames found, and as remaining emails
\* exactly the candidates in none of the email lists of the two user stages (the
\* group stage finds no email); both are empty exactly when every candidate was
\* found, as in the example with groups [team-fe], INVITED_GROUPS emails
\* [user@corp.com] and DIRECT usernames [alice].
C11_RemainingAreUnconfirmed ==
    (pc = "returned" /\ ~chk.err /\ NoDuplicates(chk.ugList) /\ NoDuplicates(chk.emailList)) =>
        /\ Range(chk.remainingUsersGroups) = Range(chk.ugList) \ NamesFound
        /\ Range(chk.remainingEmails) = Range(chk.emailList) \ EmailsFound
        /\ NoDuplicates(chk.remainingUsersGroups)
        /\ NoDuplicates(chk.remainingEmails)
        /\ chk.stages[1].emailsFound = <<>>
        /\ chk.stages[1].emails = chk.emailList
        /\ (chk.remainingUsersGroups = <<>> /\ chk.remainingEmails = <<>>) <=>
               (Range(chk.ugList) \subseteq NamesFound /\ Range(chk.emailList) \subseteq EmailsFound)
        /\ (/\ chk.ugList = <<TeamFe, Alice>>
            /\ chk.emailList = <<CorpEmail>>
            /\ Len(chk.stages) = 3
            /\ chk.stages[1].found = <<TeamFe>>
            /\ chk.stages[2].found = <<>>
            /\ chk.stages[2].emailsFound = <<CorpEmail>>
            /\ chk.stages[3].found = <<Alice>>)
           => (chk.remainingUsersGroups = <<>> /\ chk.remainingEmails = <<>>)

C11_Witness ==
    /\ pc = "returned"
    /\ ~chk.err
    /\ chk.ugList = <<TeamFe, Alice>>
    /\ chk.emailList = <<CorpEmail>>
    /\ calls = <<"GROUPS", "INVITED_GROUPS", "DIRECT">>
    /\ chk.groupsFound = <<TeamFe>>
    /\ chk.stages[2].found = <<>>
    /\ chk.stages[2].emailsFound = <<CorpEmail>>
    /\ chk.usernamesFound = <<Alice>>
    /\ chk.remainingUsersGroups = <<>>
    /\ chk.remainingEmails = <<>>

\* the sources in the order checkOwners queries them
SourceOrder == <<"GROUPS", "INVITED_GROUPS", "DIRECT">>

\* C13: once a source query has failed, checkOwners has returned with the
\* error; the failed query is the last one made, it directly follows the
\* queries of the stages that completed, and no source was queried twice.
C13_ErrorReturnsAtOnce ==
    chk.err =>
        /\ pc = "returned"
        /\ calls = SubSeq(SourceOrder, 1, Len(chk.stages) + 1)

C13_Witness ==
    /\ chk.err
    /\ pc = "returned"
    /\ calls = <<"GROUPS", "INVITED_GROUPS">>
    /\ Len(chk.stages) = 1
    /\ chk.remainingUsersGroups # <<>>

\* C14: when a source query has failed, both remaining lists that checkOwners
\* returns are empty.
C14_NoPartialResultsOnError ==
    (pc = "returned" /\ chk.err) =>
        (chk.remainingUsersGroups = <<>> /\ chk.remainingEmails = <<>>)

-----------------------------------------------------------------------------
(* filterSlice as a subtraction of lists                                   *)

\* number of occurrences of x in the list s
Count(s, x) == Cardinality({i \in 1..Len(s) : s[i] = x})

\* the elements of filterAgainst that the loop has processed
Processed == SubSeq(flt.filterAgainst, 1, flt.idx)

\* C16: filterSlice(remaining, found) is a multiset difference: each occurrence
\* in found removes at most one occurrence of an equal element, so an element
\* occurs in the result as often as in remaining less as often as in found (or
\* not at all); [a, a, b] less [a] is the multiset {a, b}.
C16_MultisetDifference ==
    /\ \A x \in FilterElements :
          Count(flt.original, x) = Max({0, Count(flt.input, x) - Count(Processed, x)})
    /\ (pc = "filtered" /\ flt.input = <<Alice, Alice, TeamFe>> /\ flt.filterAgainst = <<Alice>>)
          => (Len(flt.original) = 2 /\ Range(flt.original) = {Alice, TeamFe})

C16_Witness ==
    /\ pc = "filtered"
    /\ flt.input = <<Alice, Alice, TeamFe>>
    /\ flt.filterAgainst = <<Alice>>
    /\ flt.original = <<TeamFe, Alice>>

\* the element that the next iteration looks up is not in the working slice
NextIsMiss ==
    /\ pc = "filterSlice"
    /\ flt.idx < Len(flt.filterAgainst)
    /\ \A i \in 1..Len(flt.original) : flt.original[i] # flt.filterAgainst[flt.idx + 1]

\* C17: an element of found that is not in the remaining list is passed over:
\* the iteration leaves the list as it is and the loop goes on with the next
\* element; filterSlice returns only when every element of found was processed.
C17_MissIsNoOp ==
    [][/\ NextIsMiss => (/\ flt'.original = flt.original
                         /\ flt'.idx = flt.idx + 1
                         /\ pc' = "filterSlice")
       /\ pc' = "filtered" => flt'.idx = Len(flt'.filterAgainst)]_vars

C17_Witness ==
    /\ pc = "filtered"
    /\ flt.input = <<Alice, TeamFe>>
    /\ flt.filterAgainst = <<CorpEmail, Alice>>
    /\ flt.idx = 2
    /\ flt.original = <<TeamFe>>

-----------------------------------------------------------------------------
(* Membership queries page by page                                         *)

\* C12: when RunGraphQlQuery has returned an error for a page of the running
\* membership query, GetDirectUserMembers returns an error, and checkOwners
\* returns an error after it.
C12_FailedPageFailsQuery ==
    gq.queryFailed =>
        /\ pc = "queried" => gq.err
        /\ pc \notin {"page", "queried"} => chk.err

\* the concatenation of the lists in ss, in order
RECURSIVE Flatten(_)
Flatten(ss) == IF ss = <<>> THEN <<>> ELSE ss[1] \o Flatten(Tail(ss))

PageUsernames == Flatten([n \in 1..Len(gq.pages) |-> gq.pages[n].usernames])
PageEmails == Flatten([n \in 1..Len(gq.pages) |-> gq.pages[n].emails])

\* auxiliary: the order of fetching and subtracting, when the response to a
\* request that failed is counted as a page: the first page is requested without
\* a cursor and page n+1 with the end cursor of page n, after page n arrived and
\* announced a next page; what the query has found is the concatenation of its
\* pages in page order; while pages are being fetched the remaining lists are
\* those the previous stage left; the subtraction is made once, after a
\* response without next page, against the merged lists.
C15_MergedAsReceived ==
    /\ Len(gq.requests) >= 1 => gq.requests[1] = NoCursor
    /\ \A n \in 1..(Len(gq.requests) - 1) :
          /\ n <= Len(gq.pages)
          /\ gq.pages[n].hasNextPage
          /\ gq.requests[n + 1] = gq.pages[n].endCursor
    /\ Len(gq.requests) - Len(gq.pages) \in {0, 1}
    /\ gq.usernamesFound = PageUsernames
    /\ gq.emailsFound = PageEmails
    /\ pc \in {"page", "queried"} =>
          /\ chk.remainingUsersGroups = chk.stages[Len(chk.stages)].ug
          /\ chk.remainingEmails = chk.stages[Len(chk.stages)].emails
    /\ (pc = "page" /\ gq.pages # <<>>) => gq.pages[Len(gq.pages)].hasNextPage
    /\ (pc \in {"stage3", "returned"} /\ gq.userSource # "" /\ ~chk.err) =>
          LET k == Len(chk.stages)
          IN  /\ Len(gq.pages) = Len(gq.requests)
              /\ ~gq.pages[Len(gq.pages)].hasNextPage
              /\ chk.stages[k].found = PageUsernames
              /\ chk.stages[k].emailsFound = PageEmails
              /\ chk.stages[k].ug = filterSlice(chk.stages[k - 1].ug, PageUsernames)
              /\ chk.stages[k].emails = filterSlice(chk.stages[k - 1].emails, PageEmails)

\* a stage of checkOwners has subtracted what the running query returned
StageSubtracted == pc \in {"stage3", "returned"} /\ gq.userSource # "" /\ ~chk.err

\* C15: within one stage the pages are fetched one after another, page n+1
\* with the end cursor of page n, and the subtraction is applied only after the
\* last page, the one without next page, has been fetched, against the
\* concatenation of all pages in page order: no request of the query has failed
\* when the stage subtracts, and nothing is subtracted between two fetches.
C15_PagesMergedBeforeSubtraction ==
    /\ C15_MergedAsReceived
    /\ StageSubtracted => ~gq.queryFailed

\* auxiliary: the first page announced a next page, the request for it failed
\* with an errors-only response, and the stage subtracted the first page alone
C15_PartialMergeSubtracted ==
    /\ StageSubtracted
    /\ gq.queryFailed
    /\ Len(gq.pages) = 2
    /\ gq.pages[1].hasNextPage
    /\ gq.pages[1].usernames = <<Alice>>
    /\ gq.pages[2].usernames = <<>>
    /\ chk.stages[Len(chk.stages)].found = <<Alice>>

C15_Witness ==
    /\ pc = "returned"
    /\ ~chk.err
    /\ chk.ugList = <<Alice>>
    /\ chk.emailList = <<CorpEmail>>
    /\ gq.userSource = "INVITED_GROUPS"
    /\ gq.requests = <<NoCursor, "c2">>
    /\ Len(gq.pages) = 2
    /\ gq.pages[1].usernames = <<Alice>>
    /\ gq.pages[1].emails = <<>>
    /\ gq.pages[2].usernames = <<Bob, Alice>>
    /\ gq.pages[2].emails = <<CorpEmail, CorpEmail>>
    /\ chk.remainingUsersGroups = <<>>
    /\ chk.remainingEmails = <<>>

\* C20: checkOwners run against rest.Server and graphql.Server never panics.
C20_ReconcileNeverPanics == pc # "panic"

-----------------------------------------------------------------------------
(* The order of main's steps                                               *)

\* nothing of the analysis, of the membership check or of the file-pattern
\* check has happened
NothingAnalysedOrChecked ==
    /\ co \in NewCos
    /\ lineIdx = 0
    /\ maps = EmptyMaps
    /\ chk = IdleChk
    /\ calls = <<>>
    /\ gq.requests = <<>>
    /\ fp = IdleFp

\* C18: the syntax check is the first of main's calls, so the analysis and the
\* checks happen only after it has passed; when CheckCodeownersSyntax returns an
\* error the run ends there, and Analyze, checkOwners with its membership
\* queries, and checkFilePatterns are not called.
C18_SyntaxCheckGuardsAnalysis ==
    /\ mn.trace # <<>> => mn.trace[1] = "CheckCodeownersSyntax"
    /\ (pc \in {"main", "syntax"} \/ mn.trace = <<>>) => NothingAnalysedOrChecked
    /\ mn.syntaxErr =>
          /\ pc = "exit"
          /\ mn.trace = <<"CheckCodeownersSyntax">>
          /\ NothingAnalysedOrChecked

C18_Witness ==
    /\ mn.syntaxErr
    /\ pc = "exit"
    /\ mn.trace = <<"CheckCodeownersSyntax">>
    /\ gq.projectFullPath = <<"g", "/", "p">>

\* a run in which the syntax check passed and all of main's steps followed
C18_WitnessPassed ==
    /\ ~mn.syntaxErr
    /\ pc = "done"
    /\ mn.trace = <<"CheckCodeownersSyntax", "Analyze", "checkOwners", "checkFilePatterns">>
    /\ calls = <<"GROUPS", "INVITED_GROUPS", "DIRECT">>

-----------------------------------------------------------------------------
(* Totality of the helper functions                                        *)

\* C19: splitCodeownersLine, splitOwnerPatterns, translateCoToGlob and
\* filterSlice return a value for every input: no index or slice expression
\* of theirs is out of range, so none panics; the parser returns its three
\* texts, the classifier its three lists, the translation a glob, and
\* filterSlice a list, also for empty, one-character and blank inputs.
C19_HelpersAreTotal ==
    /\ pc # "panic"
    /\ (pc = "helped" /\ hp.fn = "splitCodeownersLine") =>
          /\ DOMAIN hp.output = {"sectionHeading", "filePattern", "ownerPatterns"}
          /\ Len(hp.output.sectionHeading) + Len(hp.output.filePattern)
                + Len(hp.output.ownerPatterns) <= Len(hp.input)
    /\ (pc = "helped" /\ hp.fn = "splitOwnerPatterns") =>
          /\ DOMAIN hp.output = {"usersOrGroups", "emails", "ignored"}
          /\ Len(hp.output.usersOrGroups) + Len(hp.output.emails) + Len(hp.output.ignored)
                = Len(Fields(hp.input))
    /\ (pc = "helped" /\ hp.fn = "translateCoToGlob") => Len(hp.output) > Len(hp.input)
    /\ pc = "filtered" => Len(flt.original) <= Len(flt.input)

C19_Witness ==
    /\ pc = "helped"
    /\ hp.fn = "splitCodeownersLine"
    /\ hp.input = <<" ", "\t">>
    /\ hp.output = NoParsed

-----------------------------------------------------------------------------
(* Termination of checkOwners                                              *)

\* every request of the running query but the last was answered by a page
\* that announced a next page, and each page was requested once
OneRequestPerPage ==
    /\ Len(gq.requests) - Len(gq.pages) \in {0, 1}
    /\ \A n \in 1..(Len(gq.requests) - 1) : gq.pages[n].hasNextPage

\* C21: every call of checkOwners ends by returning, after at most three
\* source queries; a paginated query makes one request per page and none
\* after a page without next page.
C21_ReconcileReturns ==
    /\ [](Len(calls) <= 3 /\ OneRequestPerPage)
    /\ <>(pc = "returned")

\* the same for the runs that do not panic
C21_ReconcileEnds ==
    /\ [](Len(calls) <= 3 /\ OneRequestPerPage)
    /\ <>(pc \in {"returned", "panic"})

-----------------------------------------------------------------------------
(* Results of checkFilePatterns                                            *)

\* the patterns that the loop of checkFilePatterns has gone through
PatternsDone == SubSeq(fp.filePatterns, 1, fp.idx)

\* the glob expression of "*"
StarGlob == translateCoToGlob(Star)

\* the positions of the patterns other than "*" whose glob fails
FailingPatterns ==
    {i \in 1..Len(fp.filePatterns) :
        fp.filePatterns[i] # Star /\ Glob(fp.fs, translateCoToGlob(fp.filePatterns[i])) = "error"}

\* C22, as claimed: checkFilePatterns returns exactly the input patterns other
\* than "*" whose glob has no match, in input order, and has called the glob
\* matcher once for each pattern other than "*" and never for "*".
C22_EveryPatternGlobbed ==
    pc = "checkedFilePatterns" =>
        LET toCheck == SelectSeq(fp.filePatterns, LAMBDA p : p # Star)
        IN  /\ fp.globCalls = [i \in 1..Len(toCheck) |-> translateCoToGlob(toCheck[i])]
            /\ fp.badPatterns =
                  SelectSeq(toCheck, LAMBDA p : Glob(fp.fs, translateCoToGlob(p)) = "none")

\* C22, amended: checkFilePatterns goes through the patterns in input order up
\* to the first pattern other than "*" whose glob fails, and through all of
\* them when no glob fails; it calls the glob matcher once for each of these
\* patterns other than "*" and never for "*", and returns exactly those of
\* them whose glob has no match, in input order, with an error exactly when a
\* glob failed.
C22_BadPatternsAreUnmatched ==
    LET checked == SelectSeq(PatternsDone, LAMBDA p : p # Star)
    IN  /\ fp.globCalls = [i \in 1..Len(checked) |-> translateCoToGlob(checked[i])]
        /\ fp.badPatterns =
              SelectSeq(checked, LAMBDA p : Glob(fp.fs, translateCoToGlob(p)) = "none")
        /\ pc = "checkFilePatterns" => (\A i \in FailingPatterns : i > fp.idx)
        /\ pc = "checkedFilePatterns" =>
              /\ fp.err <=> FailingPatterns # {}
              /\ fp.idx = IF FailingPatterns = {} THEN Len(fp.filePatterns)
                                                  ELSE Min(FailingPatterns)

\* the glob of the first pattern fails: the second, which has no match, is
\* neither globbed nor returned
C22_Witness ==
    /\ pc = "checkedFilePatterns"
    /\ fp.err
    /\ fp.filePatterns = <<GoFilesPattern, SrcDirPattern>>
    /\ Glob(fp.fs, translateCoToGlob(SrcDirPattern)) = "none"
    /\ fp.globCalls = <<translateCoToGlob(GoFilesPattern)>>
    /\ fp.badPatterns = <<>>

\* auxiliary: a run without a failing glob
C22_WitnessNoFailure ==
    /\ pc = "checkedFilePatterns"
    /\ ~fp.err
    /\ fp.filePatterns = <<Star, SrcDirPattern>>
    /\ fp.badPatterns = <<SrcDirPattern>>
    /\ fp.globCalls = <<translateCoToGlob(SrcDirPattern)>>

\* the bad patterns of a list when every pattern, "*" too, is translated and
\* globbed
badPatternsWithoutSkip(patterns, fs) ==
    SelectSeq(patterns, LAMBDA p : Glob(fs, translateCoToGlob(p)) = "none")

\* C23: when the glob of "*", './**/*', has a match, the bad patterns that
\* checkFilePatterns returns are those it would return if it translated and
\* globbed "*" like every other pattern.
C23_StarSkipIsAnOptimisation ==
    (pc = "checkedFilePatterns" /\ ~fp.err /\ Glob(fp.fs, StarGlob) = "matches") =>
        fp.badPatterns = badPatternsWithoutSkip(fp.filePatterns, fp.fs)

C23_Witness ==
    /\ pc = "checkedFilePatterns"
    /\ ~fp.err
    /\ Glob(fp.fs, StarGlob) = "matches"
    /\ fp.filePatterns = <<Star, GoFilesPattern>>
    /\ fp.badPatterns = <<GoFilesPattern>>

-----------------------------------------------------------------------------
(* Package analysis, func init and determineCodeownersPath: the search for  *)
(* the CODEOWNERS file among GitLab's three supported locations.            *)

\* what os.Stat finds at a location: nothing (an error), a directory, or a
\* file, that is anything for which IsDir() is false
StatOutcomes == {"missing", "directory", "file"}

WorkingDirectories == {<<a, b, c>> : a \in StatOutcomes, b \in StatOutcomes, c \in StatOutcomes}

fileExistsOrIsDirectory(stat) ==
    [exists |-> stat # "missing", err |-> stat = "missing"]

fileExists(stat) ==
    [exists |-> stat = "file", err |-> stat # "file"]

InitPath ==
    /\ pc = "init"
    /\ co = ZeroCo
    /\ lineIdx = 0
    /\ parsed = NoParsed
    /\ owners = NoOwners
    /\ maps = EmptyMaps
    /\ fp = IdleFp
    /\ chk = IdleChk
    /\ calls = <<>>
    /\ flt = IdleFlt
    /\ hp = IdleHp
    /\ gq = IdleGq
    /\ mn = IdleMn
    /\ loc \in {[IdleLoc EXCEPT !.stat = wd] : wd \in WorkingDirectories}

\* one iteration of the loop over supportedLocations
DetermineCodeownersPathStep ==
    /\ pc = "init"
    /\ loc.idx < Len(supportedLocations)
    /\ LET location == supportedLocations[loc.idx + 1]
           coExists == fileExists(loc.stat[loc.idx + 1]).exists
       IN  IF coExists
           THEN /\ co' = [co EXCEPT !.CodeownersFilePath = location]
                /\ pc' = "determined"
                /\ loc' = loc
           ELSE /\ loc' = [loc EXCEPT !.idx = loc.idx + 1]
                /\ UNCHANGED <<pc, co>>
    /\ UNCHANGED <<lineIdx, parsed, owners, maps, fp, chk, calls, flt, hp, gq, mn>>

\* the loop ended without a location found
DetermineCodeownersPathFails ==
    /\ pc = "init"
    /\ loc.idx = Len(supportedLocations)
    /\ loc' = [loc EXCEPT !.err = TRUE]
    /\ pc' = "determined"
    /\ UNCHANGED <<co, lineIdx, parsed, owners, maps, fp, chk, calls, flt, hp, gq, mn>>

\* func init: panics on the error of determineCodeownersPath
PackageInit ==
    /\ pc = "determined"
    /\ pc' = IF loc.err THEN "panic" ELSE "ready"
    /\ UNCHANGED <<co, lineIdx, parsed, owners, maps, fp, chk, calls, flt, hp, gq, mn, loc>>

NextPath == DetermineCodeownersPathStep \/ DetermineCodeownersPathFails \/ PackageInit

SpecPath == InitPath /\ [][NextPath]_vars

\* the positions of supportedLocations at which a file is found
FileLocations == {i \in 1..Len(supportedLocations) : loc.stat[i] = "file"}

\* C24: determineCodeownersPath selects the first of CODEOWNERS,
\* docs/CODEOWNERS and .gitlab/CODEOWNERS that is a file, passing over the
\* locations that are missing or are directories, and returns an error
\* exactly when none of the three is a file.
C24_FirstSupportedLocation ==
    /\ pc = "init" =>
          /\ \A i \in 1..loc.idx : loc.stat[i] # "file"
          /\ co.CodeownersFilePath = ""
          /\ ~loc.err
    /\ pc \in {"determined", "ready", "panic"} =>
          /\ loc.err <=> FileLocations = {}
          /\ FileLocations # {} =>
                /\ co.CodeownersFilePath \in {supportedLocations[i] : i \in FileLocations}
                /\ \A i \in FileLocations :
                      co.CodeownersFilePath = supportedLocations[i]
                          => \A j \in 1..(i - 1) : loc.stat[j] # "file"
          /\ FileLocations = {} => co.CodeownersFilePath = ""
    /\ pc = "panic" => loc.err
    /\ pc = "ready" => (~loc.err /\ co \in NewCos)

C24_Witness ==
    /\ pc = "ready"
    /\ loc.stat = <<"directory", "missing", "file">>
    /\ co.CodeownersFilePath = ".gitlab/CODEOWNERS"

\* auxiliary: the search can fail although two locations are taken by directories
C24_WitnessNotFound ==
    /\ pc = "panic"
    /\ loc.stat = <<"directory", "missing", "directory">>

-----------------------------------------------------------------------------
(* checkOwners and the lists of its caller                                  *)

\* C25: checkOwners never modifies its input lists: whatever the sources
\* return, every step of a call (the copying, a filtering, a return after an
\* error or after everything was checked off) leaves the caller's ugList and
\* emailList with the same elements in the same order.
C25_InputListsUntouched ==
    [][chk'.ugList = chk.ugList /\ chk'.emailList = chk.emailList]_vars

\* the first of two candidates was checked off: remove has overwritten the
\* first element of the array it was given with the second
C25_Witness ==
    /\ pc = "returned"
    /\ chk.ugBacking = "private"
    /\ chk.ugList = <<TeamFe, Alice>>
    /\ chk.remainingUsersGroups = <<Alice>>
    /\ filterSliceWrites(chk.ugList, 2, chk.groupsFound) = <<Alice, Alice>>

\* every element occurs in the list s at most as often as in the list t
SubMultiset(s, t) == \A x \in Range(s) \cup Range(t) : Count(s, x) <= Count(t, x)

\* the remaining lists at the stage boundaries passed so far, the lists at the
\* entry of checkOwners first
BoundaryUg == <<chk.ugList>> \o [k \in 1..Len(chk.stages) |-> chk.stages[k].ug]
BoundaryEmails == <<chk.emailList>> \o [k \in 1..Len(chk.stages) |-> chk.stages[k].emails]

\* C26: at every stage boundary of checkOwners each remaining list is a
\* sub-multiset of the candidate list and of the list at the previous
\* boundary, and no longer than it: nothing that is not a candidate appears,
\* and what was removed does not come back.
C26_RemainingListsOnlyShrink ==
    /\ \A k \in 2..Len(BoundaryUg) :
          /\ SubMultiset(BoundaryUg[k], chk.ugList)
          /\ SubMultiset(BoundaryUg[k], BoundaryUg[k - 1])
          /\ Len(BoundaryUg[k]) <= Len(BoundaryUg[k - 1])
          /\ SubMultiset(BoundaryEmails[k], chk.emailList)
          /\ SubMultiset(BoundaryEmails[k], BoundaryEmails[k - 1])
          /\ Len(BoundaryEmails[k]) <= Len(BoundaryEmails[k - 1])
    /\ pc # "checkOwners" =>
          /\ chk.remainingUsersGroups = BoundaryUg[Len(BoundaryUg)]
          /\ chk.remainingEmails = BoundaryEmails[Len(BoundaryEmails)]

\* three stages, the candidates going one at a time
C26_Witness ==
    /\ pc = "returned"
    /\ chk.ugList = <<TeamFe, Alice>>
    /\ chk.emailList = <<CorpEmail>>
    /\ Len(chk.stages) = 3
    /\ chk.stages[1].ug = <<Alice>>
    /\ chk.stages[2].ug = <<Alice>>
    /\ chk.stages[2].emails = <<>>
    /\ chk.stages[3].ug = <<>>

-----------------------------------------------------------------------------
(* filterSlice applied twice and applied once to the concatenation          *)

MaxSubtractLen == 2  \* longest of the three lists of a composed subtraction

SubtractLists == SeqsUpTo(FilterElements, MaxSubtractLen)

InitSubtract ==
    /\ pc = "subtract"
    /\ co = IdleCo
    /\ lineIdx = 0
    /\ parsed = NoParsed
    /\ owners = NoOwners
    /\ maps = EmptyMaps
    /\ fp = IdleFp
    /\ chk = IdleChk
    /\ calls = <<>>
    /\ flt = IdleFlt
    /\ \E r \in SubtractLists, a \in SubtractLists, b \in SubtractLists :
          hp = [fn |-> "filterSlice", input |-> <<r, a, b>>, output |-> <<>>]
    /\ gq = IdleGq
    /\ mn = IdleMn
    /\ loc = IdleLoc

\* filterSlice(filterSlice(r, a), b) and filterSlice(r, a ++ b)
ApplyFilterSliceTwice ==
    /\ pc = "subtract"
    /\ LET r == hp.input[1]
           a == hp.input[2]
           b == hp.input[3]
       IN  hp' = [hp EXCEPT !.output = <<filterSlice(filterSlice(r, a), b),
                                          filterSlice(r, a \o b)>>]
    /\ pc' = "subtracted"
    /\ UNCHANGED <<co, lineIdx, parsed, owners, maps, fp, chk, calls, flt, gq, mn, loc>>

NextSubtract == ApplyFilterSliceTwice

SpecSubtract == InitSubtract /\ [][NextSubtract]_vars

\* C27: for all lists r, a and b, filterSlice(filterSlice(r, a), b) and
\* filterSlice(r, a ++ b) are equal as multisets.
C27_SubtractionComposes ==
    pc = "subtracted" =>
        /\ Len(hp.output[1]) = Len(hp.output[2])
        /\ \A x \in FilterElements : Count(hp.output[1], x) = Count(hp.output[2], x)

\* a repeated element taken once by each pass
C27_Witness ==
    /\ pc = "subtracted"
    /\ hp.input = <<<<Alice, Alice>>, <<Alice>>, <<TeamFe, Alice>>>>
    /\ hp.output = <<<<>>, <<>>>>

\* auxiliary: the two results are the same list, element for element
C27_SameList == pc = "subtracted" => hp.output[1] = hp.output[2]

-----------------------------------------------------------------------------
(* The GraphQL requests on their own: graphql.Server.RunGraphQlQuery, its    *)
(* predecessor gitlab.GraphQlServer.RunGraphQlQuery, and                    *)
(* graphql.Server.CheckCodeownersSyntax, applied to one exchange each       *)

\* gitlab.GraphQlServer.RunGraphQlQuery: returns the error for a status other
\* than 200 before the body is looked at
gitlabRunGraphQlQuery(y) ==
    IF y.transport = "fail" THEN [statusCode |-> 0, responseBody |-> NilBody, err |-> TRUE]
    ELSE IF y.transport = "readfail"
         THEN [statusCode |-> y.status, responseBody |-> y.body, err |-> TRUE]
    ELSE IF y.status # 200 THEN [statusCode |-> y.status, responseBody |-> y.body, err |-> TRUE]
    ELSE [statusCode |-> y.status, responseBody |-> y.body, err |-> getGraphQlErrors(y.body)]

InitGraphQl ==
    /\ pc = "request"
    /\ co = IdleCo
    /\ lineIdx = 0
    /\ parsed = NoParsed
    /\ owners = NoOwners
    /\ maps = EmptyMaps
    /\ fp = IdleFp
    /\ chk = IdleChk
    /\ calls = <<>>
    /\ flt = IdleFlt
    /\ \/ \E f \in {"graphql.RunGraphQlQuery", "gitlab.RunGraphQlQuery"} :
             \/ \E y \in GraphQlExchanges : hp = [fn |-> f, input |-> y, output |-> <<>>]
             \/ \E y \in SyntaxExchanges : hp = [fn |-> f, input |-> y, output |-> <<>>]
       \/ \E y \in SyntaxExchanges :
             hp = [fn |-> "graphql.CheckCodeownersSyntax", input |-> y, output |-> <<>>]
    /\ gq = IdleGq
    /\ mn = IdleMn
    /\ loc = IdleLoc

ApplyRunGraphQlQuery ==
    /\ pc = "request"
    /\ hp.fn = "graphql.RunGraphQlQuery"
    /\ hp' = [hp EXCEPT !.output = RunGraphQlQuery(hp.input)]
    /\ pc' = "answered"
    /\ UNCHANGED <<co, lineIdx, parsed, owners, maps, fp, chk, calls, flt, gq, mn, loc>>

ApplyGitlabRunGraphQlQuery ==
    /\ pc = "request"
    /\ hp.fn = "gitlab.RunGraphQlQuery"
    /\ hp' = [hp EXCEPT !.output = gitlabRunGraphQlQuery(hp.input)]
    /\ pc' = "answered"
    /\ UNCHANGED <<co, lineIdx, parsed, owners, maps, fp, chk, calls, flt, gq, mn, loc>>

ApplyCheckCodeownersSyntax ==
    /\ pc = "request"
    /\ hp.fn = "graphql.CheckCodeownersSyntax"
    /\ hp' = [hp EXCEPT !.output = [err |-> CheckCodeownersSyntax(hp.input)]]
    /\ pc' = "answered"
    /\ UNCHANGED <<co, lineIdx, parsed, owners, maps, fp, chk, calls, flt, gq, mn, loc>>

NextGraphQl ==
    \/ ApplyRunGraphQlQuery
    \/ ApplyGitlabRunGraphQlQuery
    \/ ApplyCheckCodeownersSyntax

SpecGraphQl == InitGraphQl /\ [][NextGraphQl]_vars

\* the exchange got a response, with a status other than 200
AnsweredWithBadStatus ==
    /\ pc = "answered"
    /\ hp.input.transport \in {"ok", "readfail"}
    /\ hp.input.status # 200

\* C28: graphql.Server.RunGraphQlQuery returns an error whenever the status of
\* the response is not 200, whatever the body holds, a well-formed JSON body
\* without "errors" included.
C28_BadStatusIsAnError ==
    (AnsweredWithBadStatus /\ hp.fn = "graphql.RunGraphQlQuery") => hp.output.err

\* auxiliary: the predecessor in package gitlab does return the error
C28_GitlabBadStatusIsAnError ==
    (AnsweredWithBadStatus /\ hp.fn = "gitlab.RunGraphQlQuery") => hp.output.err

\* auxiliary: status 500 with a page of members and no "errors": no error
C28_StatusErrorLost ==
    /\ AnsweredWithBadStatus
    /\ hp.input.transport = "ok"
    /\ hp.fn = "graphql.RunGraphQlQuery"
    /\ hp.input.body.kind = "json"
    /\ ~hp.input.body.errors
    /\ ~hp.output.err

\* the response carries a decodable validation report
HasSyntaxReport ==
    /\ pc = "answered"
    /\ hp.fn = "graphql.CheckCodeownersSyntax"
    /\ hp.input.transport = "ok"
    /\ hp.input.body.kind = "json"
    /\ ~hp.input.body.errors

\* C29: CheckCodeownersSyntax returns an error whenever validateCodeownerFile
\* is null or the total is above zero, with an empty validationErrors list
\* too, and returns nil only when the query succeeded and the total is zero.
C29_BadReportIsAnError ==
    /\ HasSyntaxReport =>
          LET v == hp.input.body.validateCodeownerFile
          IN  (v.null \/ v.total > 0) => hp.output.err
    /\ (pc = "answered" /\ hp.fn = "graphql.CheckCodeownersSyntax" /\ ~hp.output.err) =>
          /\ HasSyntaxReport
          /\ hp.input.status = 200
          /\ ~hp.input.body.validateCodeownerFile.null
          /\ hp.input.body.validateCodeownerFile.total = 0

\* auxiliary: status 200, total 1, no validationErrors: no error
C29_EmptyErrorListPasses ==
    /\ HasSyntaxReport
    /\ hp.input.status = 200
    /\ hp.input.body.validateCodeownerFile = [null |-> FALSE, total |-> 1, validationErrors |-> 0]
    /\ ~hp.output.err

\* auxiliary: the claim but for the report with a total and no validationErrors
\* and for the status, which RunGraphQlQuery loses
C29_ErrorUnlessEmptyList ==
    /\ HasSyntaxReport =>
          LET v == hp.input.body.validateCodeownerFile
          IN  (v.null \/ (v.total > 0 /\ v.validationErrors > 0)) => hp.output.err
    /\ (pc = "answered" /\ hp.fn = "graphql.CheckCodeownersSyntax" /\ ~hp.output.err) =>
          /\ HasSyntaxReport
          /\ ~hp.input.body.validateCodeownerFile.null
          /\ \/ hp.input.body.validateCodeownerFile.total = 0
             \/ hp.input.body.validateCodeownerFile.validationErrors = 0

-----------------------------------------------------------------------------
(* The owner token that is nothing but "@"                                  *)

BareAt == <<"@">>

\* the owner tokens of the lines that Analyze's loop has processed
OwnerTokensSeen ==
    UNION {Range(Fields(splitCodeownersLine(co.CodeownersFileLines[n]).ownerPatterns)) :
              n \in 1..lineIdx}

\* C30: an owner token that is just "@" is classified as a user or group
\* reference, stored under the empty name, and discarded with it: after Analyze
\* it is in none of UserAndGroupPatterns, EmailPatterns and IgnoredPatterns
\* (the name "@" is there only for a token "@@").
C30_BareAtIsDiscarded ==
    /\ (pc = "loop" /\ BareAt \in Range(Fields(parsed.ownerPatterns))) =>
          /\ BareAt \in Range(owners.usersOrGroups)
          /\ BareAt \notin Range(owners.emails) \cup Range(owners.ignored)
          /\ <<>> \in maps.userAndGroupPatternsMap
    /\ pc \in {"loop", "analyzed"} =>
          /\ BareAt \notin maps.emailPatternsMap \cup maps.ignoredPatternsMap
          /\ BareAt \in maps.userAndGroupPatternsMap => <<"@", "@">> \in OwnerTokensSeen
    /\ pc = "analyzed" =>
          /\ <<>> \notin Range(co.UserAndGroupPatterns)
          /\ BareAt \notin Range(co.EmailPatterns) \cup Range(co.IgnoredPatterns)
          /\ BareAt \in Range(co.UserAndGroupPatterns) => <<"@", "@">> \in OwnerTokensSeen

\* README.md @ @alice
C30_Witness ==
    /\ pc = "analyzed"
    /\ co.CodeownersFileLines = <<BareAtLine>>
    /\ owners.usersOrGroups = <<BareAt, <<"@", "a", "l", "i", "c", "e">> >>
    /\ maps.userAndGroupPatternsMap = { <<"a", "l", "i", "c", "e">> }
    /\ co.UserAndGroupPatterns = << <<"a", "l", "i", "c", "e">> >>
    /\ co.EmailPatterns = <<>>
    /\ co.IgnoredPatterns = <<>>

=============================================================================
